---- MODULE Spec2Model ----
(***************************************************************************)
(* walk.io: the image-to-disk build pipeline.                              *)
(*                                                                         *)
(* Concurrent builds of ONE image digest into one shared output directory. *)
(* The three orchestrators of the repository are modelled, each as its own *)
(* specification over the same file-system state:                          *)
(*   Spec        builder.Build, refreshing (wanted marker, per-run build   *)
(*               directory, temp device <digest>-<ts>.ext4, rename)        *)
(*   SpecApp     BuildAppDevice (wanted marker, temp device                *)
(*               <digest>_tmp.ext4, mount, unpack, rename)                 *)
(*   SpecInhibit builder.Build, inhibiting (cache check, build directory   *)
(*               per digest, device written under the final name)          *)
(* A fourth specification, SpecFlat, is LayerFlattener.BuildFs applied, one *)
(* tar entry per step, to every layer sequence up to a bound.              *)
(* Every action is one step of a build between two points at which another *)
(* build (another goroutine or process on the host) can run.               *)
(***************************************************************************)
EXTENDS Integers, Sequences, FiniteSets, TLC

(* ------------------------------ bounds -------------------------------- *)
\* Unix second at which the model starts, and the last second it reaches.
BaseTime == 9
MaxClock == 10

\* The concurrent build attempts (all of the same digest).
Builds == {"A", "B"}

NoInode == "-"

VARIABLES
    clock,      \* time.Now().Unix() of the host
    pc,         \* per build: the statement it is about to execute
    startTs,    \* per build: buildTimeStamp
    result,     \* per build: "none" | "ok" | "error" | "superseded"
    errAt,      \* per build: the step whose error is being returned ("" if none)
    defers,     \* per build: the deferred calls registered so far
    wanted,     \* <output_dir>/<digest_hex>.wanted : a file
    wfaTmp,     \* per build: the os.CreateTemp file of its WriteFileAtomic call
    wfaErr,     \* per build: WriteFileAtomic is returning an error
    inode,      \* per creating build: the device file it allocated (content)
    outDir,     \* output_dir: device file name -> the inode it names
    rootfs,     \* work/temp dir: per key, the state of the build (or mount) directory
    mnt,        \* per key: the stack of inodes loop-mounted at the mount point
    mntBy,      \* per key: the builds whose mount calls made the mounts of that stack
    cancelAt,   \* per build: "" | "early" | "late": its ctx was cancelled before / after its guard
    publishLog, \* observation: the builds that renamed onto <digest_hex>.ext4, in order
    markerLog   \* observation: the builds that renamed onto <digest_hex>.wanted, in order

buildVars == <<clock, pc, startTs, result, errAt, defers, wanted, wfaTmp, wfaErr,
          inode, outDir, rootfs, mnt, mntBy, publishLog, markerLog, cancelAt>>

\* Names of build, mount and temp-device entries: a timestamp (builder.Build's
\* buildRun = <digest>-<ts>), 0 (a name fixed by the digest alone) or 1 (the
\* directory "mnt" of the process's working directory).
Keys == {0, 1} \cup (BaseTime..MaxClock)

\* The device files of output_dir: the published <digest_hex>.ext4 and the
\* temp devices.
FinalName == -1
OutNames == {FinalName} \cup Keys

NoFile == [exists |-> FALSE, data |-> <<>>]
File(d) == [exists |-> TRUE, data |-> d]

(* ------------------- strconv.FormatInt / ParseInt --------------------- *)
\* Bytes are ASCII codes: '0' = 48 .. '9' = 57, '-' = 45, '+' = 43.
RECURSIVE FormatNat(_)
FormatNat(n) == IF n < 10 THEN <<48 + n>> ELSE FormatNat(n \div 10) \o <<48 + (n % 10)>>

FormatInt(n) == IF n < 0 THEN <<45>> \o FormatNat(-n) ELSE FormatNat(n)

IsDigit(c) == c >= 48 /\ c <= 57

RECURSIVE DigitsVal(_)
DigitsVal(s) == IF s = <<>> THEN 0 ELSE 10 * DigitsVal(SubSeq(s, 1, Len(s) - 1)) + (s[Len(s)] - 48)

\* strconv.ParseInt(s, 10, 64): an optional sign, then at least one digit and
\* nothing but digits.
ParseInt(s) ==
    LET signed == Len(s) > 0 /\ s[1] \in {43, 45}
        body == IF signed THEN SubSeq(s, 2, Len(s)) ELSE s
    IN  IF body = <<>> \/ \E i \in 1..Len(body) : ~IsDigit(body[i])
        THEN [ok |-> FALSE, val |-> 0]
        ELSE [ok |-> TRUE, val |-> IF signed /\ s[1] = 45 THEN -DigitsVal(body) ELSE DigitsVal(body)]

Prefixes(s) == {SubSeq(s, 1, n) : n \in 0..Len(s)}

(* --------------------------- isNewstBuild ----------------------------- *)
\* isNewstBuild that takes a marker it cannot read or parse as a reason not
\* to publish.
isNewstBuild_Strict(f, timestamp) ==
    IF ~f.exists THEN FALSE
    ELSE IF ~ParseInt(f.data).ok THEN FALSE
    ELSE ParseInt(f.data).val <= timestamp

isNewstBuild(f, timestamp) ==
    IF ~f.exists THEN TRUE
    ELSE IF ~ParseInt(f.data).ok THEN TRUE
    ELSE ParseInt(f.data).val <= timestamp

\* The inode <output_dir>/<digest_hex>.ext4 names (NoInode: no such file).
final == outDir[FinalName]

(* ============== path/filepath and strings, on byte strings ============ *)
\* A string is the sequence of its characters, each a one-character string.
Slash == "/"
Dot == <<".">>
DotDot == <<".", ".">>

\* strings.HasPrefix(s, prefix)
HasPrefix(s, prefix) ==
    Len(s) >= Len(prefix) /\ SubSeq(s, 1, Len(prefix)) = prefix

\* strings.TrimPrefix(s, prefix)
TrimPrefix(s, prefix) ==
    IF HasPrefix(s, prefix) THEN SubSeq(s, Len(prefix) + 1, Len(s)) ELSE s

\* The elements of s between its separators (strings.Split(s, "/")).
RECURSIVE SplitSlash(_)
SplitSlash(s) ==
    IF s = <<>> THEN << <<>> >>
    ELSE LET r == SplitSlash(Tail(s))
         IN  IF Head(s) = Slash THEN << <<>> >> \o r
             ELSE << <<Head(s)>> \o Head(r) >> \o Tail(r)

\* strings.Join(elems, "/")
RECURSIVE JoinSlash(_)
JoinSlash(elems) ==
    IF elems = <<>> THEN <<>>
    ELSE IF Len(elems) = 1 THEN Head(elems)
    ELSE Head(elems) \o <<Slash>> \o JoinSlash(Tail(elems))

\* filepath.Clean, the pass over the elements: empty and "." elements are
\* dropped, ".." drops the element before it, is dropped itself at the root of
\* a rooted path and is kept at the start of a relative one.
RECURSIVE CleanElems(_, _, _)
CleanElems(elems, out, rooted) ==
    IF elems = <<>> THEN out
    ELSE LET e == Head(elems)
             rest == Tail(elems)
         IN  IF e = <<>> \/ e = Dot THEN CleanElems(rest, out, rooted)
             ELSE IF e = DotDot
             THEN IF out # <<>> /\ out[Len(out)] # DotDot
                  THEN CleanElems(rest, SubSeq(out, 1, Len(out) - 1), rooted)
                  ELSE IF rooted THEN CleanElems(rest, out, rooted)
                  ELSE CleanElems(rest, Append(out, e), rooted)
             ELSE CleanElems(rest, Append(out, e), rooted)

\* filepath.Clean(path)
Clean(path) ==
    LET rooted == path # <<>> /\ path[1] = Slash
        out == JoinSlash(CleanElems(SplitSlash(path), <<>>, rooted))
    IN  IF rooted THEN <<Slash>> \o out
        ELSE IF out = <<>> THEN Dot ELSE out

\* filepath.Join(elem...): the elements from the first non-empty one on are
\* joined with separators and the result is cleaned.
RECURSIVE Join(_)
Join(elems) ==
    IF elems = <<>> THEN <<>>
    ELSE IF Head(elems) = <<>> THEN Join(Tail(elems))
    ELSE Clean(JoinSlash(elems))

\* filepath.Split(path): the split after the last separator.
RECURSIVE LastSlash(_)
LastSlash(s) ==
    IF s = <<>> THEN 0
    ELSE IF s[Len(s)] = Slash THEN Len(s)
    ELSE LastSlash(SubSeq(s, 1, Len(s) - 1))

SplitDir(path) == SubSeq(path, 1, LastSlash(path))
SplitFile(path) == SubSeq(path, LastSlash(path) + 1, Len(path))

\* filepath.Dir(path)
Dir(path) == Clean(SplitDir(path))

(* ================= LayerFlattener.BuildFs (ext4Device.go) ============= *)
\* The longest layer sequence, counted in tar entries.
MaxEntries == 3

\* targetDir, the rootfs directory handed to BuildFs.
TargetDir == <<"/", "w", "/", "t">>

\* The whiteout prefix ".wh." and the name that is left of an opaque marker
\* ".wh..wh..opaque" once the prefix is trimmed.
WhPrefix == <<".", "w", "h", ".">>
OpaqueName == WhPrefix \o <<".", "o", "p", "a", "q", "u", "e">>

\* tar headers: Typeflag, Name, Linkname.
Hdr(t, n, l) == [typeflag |-> t, name |-> n, linkname |-> l]

Headers ==
    { Hdr("reg", <<"a">>, <<>>),
      Hdr("dir", <<"a">>, <<>>),
      Hdr("dir", <<"d">>, <<>>),
      Hdr("reg", <<"d", "/", "a">>, <<>>),
      Hdr("reg", WhPrefix \o <<"a">>, <<>>),
      Hdr("reg", <<"d", "/">> \o WhPrefix \o <<"a">>, <<>>),
      Hdr("reg", WhPrefix \o <<"d">>, <<>>),
      Hdr("reg", <<"d", "/">> \o WhPrefix \o OpaqueName, <<>>),
      Hdr("reg", <<".", ".", "/", "x">>, <<>>),
      Hdr("reg", <<".", ".", "/", "t", "x", "/", "a">>, <<>>),
      Hdr("reg", <<".", ".", "/">> \o WhPrefix \o <<"x">>, <<>>),
      Hdr("link", <<"h">>, <<"a">>),
      Hdr("link", <<"h">>, <<".", ".", "/", "x">>),
      Hdr("link", <<"h">>, <<".", ".", "/", "t", "x", "/", "s">>),
      Hdr("fifo", <<"a">>, <<>>) }

\* The entries of the layers that carry symbolic links: a link named a to the
\* directory above the rootfs (by its absolute path, and by ".."), a link a to
\* a name inside the rootfs, and a file, a directory and a file below it
\* under the same name.
SymHeaders ==
    { Hdr("symlink", <<"a">>, <<"/", "w">>),
      Hdr("symlink", <<"a">>, <<".", ".">>),
      Hdr("symlink", <<"a">>, <<"x">>),
      Hdr("reg", <<"a">>, <<>>),
      Hdr("dir", <<"a">>, <<>>),
      Hdr("reg", <<"a", "/", "x">>, <<>>) }

\* isWhiteout(name)
isWhiteout(name) == HasPrefix(SplitFile(Clean(name)), WhPrefix)

\* handleWhiteout: dir, file := filepath.Split(filepath.Clean(whiteoutPath));
\* actualName := strings.TrimPrefix(file, ".wh.")
WhDir(name) == SplitDir(Clean(name))
WhActualName(name) == TrimPrefix(SplitFile(Clean(name)), WhPrefix)
IsOpaque(name) == WhActualName(name) = OpaqueName
\* deletePath := filepath.Join(targetDir, dir, actualName)
DeletePath(name) == Join(<<TargetDir, WhDir(name), WhActualName(name)>>)
\* opaqueDir := filepath.Join(targetDir, dir)
OpaqueDir(name) == Join(<<TargetDir, WhDir(name)>>)

\* extractTarEntry: targetPath := filepath.Join(targetDir, filepath.Clean(header.Name))
TargetPath(name) == Join(<<TargetDir, Clean(name)>>)
\* linkTarget := filepath.Join(targetDir, filepath.Clean(header.Linkname))
LinkTarget(linkname) == Join(<<TargetDir, Clean(linkname)>>)

\* The path p and the directories above it, up to the root.
RECURSIVE Ancestors(_)
Ancestors(p) == IF Dir(p) = p THEN {p} ELSE {p} \cup Ancestors(Dir(p))

\* Files of the host beside the rootfs directory: /w/x, and /w/tx/s in a
\* sibling directory whose name starts with the rootfs directory's name.
HostX == <<"/", "w", "/", "x">>
HostS == <<"/", "w", "/", "t", "x", "/", "s">>

\* Every path a system call of BuildFs can name on these inputs.
AllPaths ==
    UNION { Ancestors(p) :
            p \in {HostX, HostS, TargetDir}
                  \cup {TargetPath(h.name) : h \in Headers \cup SymHeaders}
                  \cup {Join(<<TargetDir, h.linkname>>) : h \in SymHeaders}
                  \cup {LinkTarget(h.linkname) : h \in Headers}
                  \cup {DeletePath(h.name) : h \in Headers}
                  \cup {OpaqueDir(h.name) : h \in Headers} }

\* For each path, the path itself and the directories above it.
Above == [p \in AllPaths |-> Ancestors(p)]

\* What a path names: nothing, a directory, a regular file (an inode) ...
NoNode == [kind |-> "none", ino |-> <<>>, link |-> <<>>]
DirNode == [kind |-> "dir", ino |-> <<>>, link |-> <<>>]
FileNode(i) == [kind |-> "file", ino |-> i, link |-> <<>>]
\* ... or a symbolic link, with its text.
SymNode(l) == [kind |-> "symlink", ino |-> <<>>, link |-> l]

\* Inodes: those of the two host files, and one per tar entry (layer,
\* position) for the file the entry creates. The bytes of an inode are the
\* entry whose content was copied into it last, <<>> when it is empty.
HostInoX == <<0, 1>>
HostInoS == <<0, 2>>
HostBytes == <<0, 0>>
Inodes == {HostInoX, HostInoS} \cup ((1..MaxEntries) \X (1..MaxEntries))

HostTree ==
    [p \in AllPaths |->
        IF p = HostX THEN FileNode(HostInoX)
        ELSE IF p = HostS THEN FileNode(HostInoS)
        ELSE IF p \in (Ancestors(HostX) \cup Ancestors(HostS) \cup Ancestors(Dir(TargetDir)))
        THEN DirNode
        ELSE NoNode]

HostData == [i \in Inodes |-> IF i \in {HostInoX, HostInoS} THEN HostBytes ELSE <<>>]

VARIABLES
    layers,     \* the image's layers in manifest order, each its tar headers in tar order
    li,         \* the layer BuildFs is extracting
    ei,         \* the tar entry of that layer tarReader.Next() returns next
    tree,       \* the file system: path -> what it names
    idata,      \* the file system: inode -> its bytes
    flPc,       \* "idle" | "start" | "run" | "done"
    flErr,      \* the error BuildFs returns ("" for nil)
    flCtx       \* BuildFs's ctx: "live" | "cancelled" (entries were still to
                \* come when it was cancelled) | "late"

flatVars == <<layers, li, ei, tree, idata, flPc, flErr, flCtx>>

(* ------------------------ WriteConfig, the state ---------------------- *)
VARIABLES
    config,     \* the oci.ImageConfig WriteConfig is called with
    envFile,    \* the bytes of <rootfs>/walkio/env
    argvFile,   \* the bytes of <rootfs>/walkio/argv
    cwPc        \* "idle" | "start" | "env" | "done"

cfgVars == <<config, envFile, argvFile, cwPc>>

NoConfig == [Env |-> <<>>, Entrypoint |-> <<>>, Cmd |-> <<>>, WorkingDir |-> <<>>]

\* No WriteConfig call is modelled.
CfgIdle ==
    /\ config = NoConfig
    /\ envFile = <<>>
    /\ argvFile = <<>>
    /\ cwPc = "idle"

(* ---------------- NewDevice, the size rule: the state ----------------- *)
VARIABLES
    opts,       \* BlockDeviceOptions: SizeBytes, or the content of SourceDirPath
    fileSize,   \* the logical size of the file at OutputFilePath (0: no file)
    devSize,    \* SizeBytes of the BlockDevice returned
    szPc,       \* "idle" | "start" | "created" | "done"
    szErr       \* the error NewDevice returns ("" for nil)

szVars == <<opts, fileSize, devSize, szPc, szErr>>

NoOpts == [given |-> FALSE, SizeBytes |-> 0, content |-> 0]

\* No NewDevice call is modelled for its sizes.
SzIdle ==
    /\ opts = NoOpts
    /\ fileSize = 0
    /\ devSize = 0
    /\ szPc = "idle"
    /\ szErr = ""

(* -------------------- BuildStateDevice, the state --------------------- *)
VARIABLES
    stFiles,    \* the paths of the device files in OutputDir
    stUuids,    \* how many UUIDs uuid.NewV7() has handed out
    stRet       \* observation: the calls that returned, in order

stVars == <<stFiles, stUuids, stRet>>

\* No BuildStateDevice call is modelled.
StIdle ==
    /\ stFiles = {}
    /\ stUuids = 0
    /\ stRet = <<>>

(* ------------------ IPPool and HostPortPool, the state ---------------- *)
VARIABLES
    ipPool,     \* IPPool.pool: IP -> vmID ("" marks a free address)
    ipOwner,    \* observation: IP -> <<vm>> when the last successful call on
                \* it was an AllocateIP of vm, <<>> otherwise
    ipRet,      \* the last call on the IP pool and what it returned
    portPool,   \* HostPortPool.pool: port -> vmID ("" marks a free port)
    portOwner,  \* observation: as ipOwner, for the ports
    portRet     \* the last call on the port pool and what it returned

ipVars == <<ipPool, ipOwner, ipRet>>
portVars == <<portPool, portOwner, portRet>>

\* No call yet; out is the address returned, or the set of ports returned.
NoCall == [seq |-> 0, op |-> "none", vm |-> "", arg |-> <<>>, out |-> <<>>, err |-> FALSE]
NoPortCall == [NoCall EXCEPT !.out = {}]

\* No pool is modelled.
IpIdle ==
    /\ ipPool = <<>>
    /\ ipOwner = <<>>
    /\ ipRet = NoCall
PortIdle ==
    /\ portPool = <<>>
    /\ portOwner = <<>>
    /\ portRet = NoPortCall

(* ---------------------- NewRegistryProvider, the state ---------------- *)
VARIABLES
    imageRef,       \* the reference NewRegistryProvider is called with
    normalizedRef,  \* the reference it hands to name.ParseReference
    refPc           \* "idle", "call" (called), "done" (normalized)

refVars == <<imageRef, normalizedRef, refPc>>

\* No NewRegistryProvider call is modelled.
RefIdle ==
    /\ imageRef = <<>>
    /\ normalizedRef = <<>>
    /\ refPc = "idle"

(* ----------------------- FirecrackerMachine, the state ---------------- *)
VARIABLES
    fcCmd,      \* m.Cmd: 0 for nil, else the process it points to
    fcProcs,    \* the firecracker processes Start launched, in order: "running",
                \* "orphan" (alive after a Stop call returned), "exited"
    fcDir,      \* the machine directory VM_DIR/<id> exists
    fcRet       \* the last call on the machine and what it returned

fcVars == <<fcCmd, fcProcs, fcDir, fcRet>>

NoFcCall == [seq |-> 0, op |-> "none", out |-> "", err |-> FALSE]

\* No machine is modelled.
FcIdle ==
    /\ fcCmd = 0
    /\ fcProcs = <<>>
    /\ fcDir = FALSE
    /\ fcRet = NoFcCall

\* The state of the packages other than the builder and the flattener.
moreVars == <<cfgVars, szVars, stVars, ipVars, portVars, refVars, fcVars>>

MoreIdle == CfgIdle /\ SzIdle /\ StIdle /\ IpIdle /\ PortIdle /\ RefIdle /\ FcIdle

\* What the steps of one package leave alone: the state of all the others.
outsideCfg == <<buildVars, flatVars, szVars, stVars, ipVars, portVars, refVars, fcVars>>
outsideSz == <<buildVars, flatVars, cfgVars, stVars, ipVars, portVars, refVars, fcVars>>
outsideSt == <<buildVars, flatVars, cfgVars, szVars, ipVars, portVars, refVars, fcVars>>
outsideIp == <<buildVars, flatVars, cfgVars, szVars, stVars, portVars, refVars, fcVars>>
outsidePort == <<buildVars, flatVars, cfgVars, szVars, stVars, ipVars, refVars, fcVars>>
outsideRef == <<buildVars, flatVars, cfgVars, szVars, stVars, ipVars, portVars, fcVars>>
outsideFc == <<buildVars, flatVars, cfgVars, szVars, stVars, ipVars, portVars, refVars>>

\* No BuildFs call is modelled (the specifications of the builds).
FlatIdle ==
    /\ layers = <<>>
    /\ li = 1
    /\ ei = 1
    /\ tree = HostTree
    /\ idata = HostData
    /\ flPc = "idle"
    /\ flErr = ""
    /\ flCtx = "live"

\* os.MkdirAll(p): fails when p or a directory above it names a file; makes
\* every missing directory otherwise.
MkdirAllOk(t, p) == \A q \in Above[p] : t[q].kind # "file"
\* os.MkdirAll that makes nothing.
MkdirAll_Nothing(t, p) == t
MkdirAll(t, p) ==
    [q \in AllPaths |-> IF q \in Above[p] /\ t[q].kind = "none" THEN DirNode ELSE t[q]]

\* os.RemoveAll that removes p alone and leaves what is below it.
RemoveAll_Shallow(t, p) ==
    [q \in AllPaths |-> IF q = p THEN NoNode ELSE t[q]]

\* os.RemoveAll(p): p and everything below it are gone; nil when there is
\* nothing at p. (On these inputs no directory above p is a regular file.)
RemoveAll(t, p) ==
    [q \in AllPaths |-> IF p \in Above[q] THEN NoNode ELSE t[q]]

(* ------------------------------- Init --------------------------------- *)
BuildInit ==
    /\ clock = BaseTime
    /\ pc = [b \in Builds |-> "idle"]
    /\ startTs = [b \in Builds |-> 0]
    /\ result = [b \in Builds |-> "none"]
    /\ errAt = [b \in Builds |-> ""]
    /\ defers = [b \in Builds |-> {}]
    /\ wanted = NoFile
    /\ wfaTmp = [b \in Builds |-> NoFile]
    /\ wfaErr = [b \in Builds |-> FALSE]
    /\ inode = [b \in Builds |-> [stage |-> "none", by |-> NoInode]]
    /\ outDir = [o \in OutNames |-> NoInode]
    /\ rootfs = [k \in Keys |-> "absent"]
    /\ mnt = [k \in Keys |-> <<>>]
    /\ mntBy = [k \in Keys |-> <<>>]
    /\ publishLog = <<>>
    /\ markerLog = <<>>
    /\ cancelAt = [b \in Builds |-> ""]

vars == <<buildVars, flatVars, moreVars>>

Init == BuildInit /\ FlatIdle /\ MoreIdle

\* Only one package is called: the others are idle.
OutsideCfgIdle == BuildInit /\ FlatIdle /\ SzIdle /\ StIdle /\ IpIdle /\ PortIdle /\ RefIdle /\ FcIdle
OutsideSzIdle == BuildInit /\ FlatIdle /\ CfgIdle /\ StIdle /\ IpIdle /\ PortIdle /\ RefIdle /\ FcIdle
OutsideStIdle == BuildInit /\ FlatIdle /\ CfgIdle /\ SzIdle /\ IpIdle /\ PortIdle /\ RefIdle /\ FcIdle
OutsideIpIdle == BuildInit /\ FlatIdle /\ CfgIdle /\ SzIdle /\ StIdle /\ PortIdle /\ RefIdle /\ FcIdle
OutsidePortIdle == BuildInit /\ FlatIdle /\ CfgIdle /\ SzIdle /\ StIdle /\ IpIdle /\ RefIdle /\ FcIdle
OutsideRefIdle == BuildInit /\ FlatIdle /\ CfgIdle /\ SzIdle /\ StIdle /\ IpIdle /\ PortIdle /\ FcIdle
OutsideFcIdle == BuildInit /\ FlatIdle /\ CfgIdle /\ SzIdle /\ StIdle /\ IpIdle /\ PortIdle /\ RefIdle

\* The host's clock advances.
Tick ==
    /\ clock < MaxClock
    /\ clock' = clock + 1
    /\ UNCHANGED <<flatVars, moreVars, cancelAt, pc, startTs, result, errAt, defers, wanted, wfaTmp, wfaErr,
                   inode, outDir, rootfs, mnt, mntBy, publishLog, markerLog>>

\* The statement a returning build runs next: its deferred calls, last
\* registered first, then the return itself.
ExitPc(d) ==
    IF "unmountDev" \in d THEN "deferUnmount"
    ELSE IF "rmTmp" \in d THEN "rmTmp"
    ELSE IF "rmBuildDir" \in d THEN "rmBuildDir"
    ELSE "done"

\* Build b leaves with outcome r, the error (if any) raised at step `at`.
Leave(b, r, at) ==
    /\ result' = [result EXCEPT ![b] = r]
    /\ errAt' = [errAt EXCEPT ![b] = at]
    /\ pc' = [pc EXCEPT ![b] = ExitPc(defers[b])]

Running(b) == pc[b] \notin {"idle", "done", "crashed"}

\* The process running build b is killed: no deferred call runs.
Crash(b) ==
    /\ Running(b)
    /\ pc' = [pc EXCEPT ![b] = "crashed"]
    /\ UNCHANGED <<flatVars, moreVars, cancelAt, clock, startTs, result, errAt, defers, wanted, wfaTmp, wfaErr,
                   inode, outDir, rootfs, mnt, mntBy, publishLog, markerLog>>

\* The statements of a build from its rename on, and those of its deferred
\* calls: the build is past its publication guard (or already returning).
PastGuard == {"rename", "adUnmount", "adRename", "rmTmp", "rmBuildDir", "deferUnmount"}

\* The caller cancels the ctx it handed to build b.
Cancelled(b) == cancelAt[b] # ""

Cancel(b) ==
    /\ Running(b)
    /\ ~Cancelled(b)
    /\ cancelAt' = [cancelAt EXCEPT ![b] = IF pc[b] \in PastGuard THEN "late" ELSE "early"]
    /\ UNCHANGED <<flatVars, moreVars, clock, pc, startTs, result, errAt, defers, wanted, wfaTmp, wfaErr,
                   inode, outDir, rootfs, mnt, mntBy, publishLog, markerLog>>


(* ------------------ the start of a build (both variants) -------------- *)
\* startTime := time.Now(); buildTimeStamp := startTime.Unix();
\* os.MkdirAll(opts.OutputDir)
Start(b) ==
    /\ pc[b] = "idle"
    /\ startTs' = [startTs EXCEPT ![b] = clock]
    /\ \/ /\ pc' = [pc EXCEPT ![b] = "getImage"]
          /\ UNCHANGED <<result, errAt>>
       \/ Leave(b, "error", "mkdirOut")
    /\ UNCHANGED <<flatVars, moreVars, cancelAt, clock, defers, wanted, wfaTmp, wfaErr, inode, outDir, rootfs, mnt, mntBy, publishLog, markerLog>>

\* image, err := provider.GetImage(ctx): the registry fetch runs under ctx
\* (remote.WithContext(ctx)) and fails once ctx is cancelled.
GetImage(b, next) ==
    /\ pc[b] = "getImage"
    /\ \/ /\ ~Cancelled(b)
          /\ pc' = [pc EXCEPT ![b] = next]
          /\ UNCHANGED <<result, errAt>>
       \/ Leave(b, "error", "getImage")
    /\ UNCHANGED <<flatVars, moreVars, cancelAt, clock, startTs, defers, wanted, wfaTmp, wfaErr, inode, outDir,
                   rootfs, mnt, mntBy, publishLog, markerLog>>

(* -------------------------- fs.WriteFileAtomic ------------------------ *)
\* The bytes the build hands to WriteFileAtomic for the wanted marker.
WantedData(b) == FormatInt(startTs[b])

\* WriteFileAtomic without the temp file: the marker path itself is opened
\* (created or truncated) for the write.
WfaCreateTemp_InPlace(b) ==
    /\ pc[b] = "wfaCreate"
    /\ \/ /\ wanted' = File(<<>>)
          /\ wfaTmp' = [wfaTmp EXCEPT ![b] = File(<<>>)]
          /\ pc' = [pc EXCEPT ![b] = "wfaWrite"]
          /\ UNCHANGED <<result, errAt>>
       \/ /\ Leave(b, "error", "wanted")
          /\ UNCHANGED <<wanted, wfaTmp>>
    /\ UNCHANGED <<flatVars, moreVars, cancelAt, clock, startTs, defers, wfaErr, inode, outDir, rootfs, mnt, mntBy, publishLog, markerLog>>

\* tmp, err := os.CreateTemp(dir, "*.tmp"): a new, empty file under a name no
\* other call uses; defer os.Remove(tmpName).
WfaCreateTemp(b) ==
    /\ pc[b] = "wfaCreate"
    /\ \/ /\ wfaTmp' = [wfaTmp EXCEPT ![b] = File(<<>>)]
          /\ pc' = [pc EXCEPT ![b] = "wfaWrite"]
          /\ UNCHANGED <<result, errAt>>
       \/ /\ Leave(b, "error", "wanted")
          /\ UNCHANGED wfaTmp
    /\ UNCHANGED <<flatVars, moreVars, cancelAt, clock, startTs, defers, wanted, wfaErr, inode, outDir, rootfs, mnt, mntBy, publishLog, markerLog>>

\* tmp.Chmod; tmp.Write(data); tmp.Sync(); tmp.Close(). A failing step leaves
\* some prefix of the data in the temp file.
WfaWrite(b) ==
    /\ pc[b] = "wfaWrite"
    /\ \/ /\ wfaTmp' = [wfaTmp EXCEPT ![b] = File(WantedData(b))]
          /\ pc' = [pc EXCEPT ![b] = "wfaRename"]
          /\ UNCHANGED wfaErr
       \/ /\ \E d \in Prefixes(WantedData(b)) : wfaTmp' = [wfaTmp EXCEPT ![b] = File(d)]
          /\ wfaErr' = [wfaErr EXCEPT ![b] = TRUE]
          /\ pc' = [pc EXCEPT ![b] = "wfaRemove"]
    /\ UNCHANGED <<flatVars, moreVars, cancelAt, clock, startTs, result, errAt, defers, wanted, inode, outDir,
                   rootfs, mnt, mntBy, publishLog, markerLog>>

\* os.Rename(tmpName, filePath): the marker path now names the temp file.
WfaRename(b) ==
    /\ pc[b] = "wfaRename"
    /\ \/ /\ wanted' = wfaTmp[b]
          /\ wfaTmp' = [wfaTmp EXCEPT ![b] = NoFile]
          /\ markerLog' = Append(markerLog, b)
          /\ pc' = [pc EXCEPT ![b] = "wfaSync"]
          /\ UNCHANGED wfaErr
       \/ /\ wfaErr' = [wfaErr EXCEPT ![b] = TRUE]
          /\ pc' = [pc EXCEPT ![b] = "wfaRemove"]
          /\ UNCHANGED <<wanted, wfaTmp, markerLog>>
    /\ UNCHANGED <<flatVars, moreVars, cancelAt, clock, startTs, result, errAt, defers, inode, outDir, rootfs, mnt, mntBy, publishLog>>

\* dfd, err := os.Open(dir); dfd.Sync()
WfaSyncDir(b) ==
    /\ pc[b] = "wfaSync"
    /\ pc' = [pc EXCEPT ![b] = "wfaRemove"]
    /\ \/ UNCHANGED wfaErr
       \/ wfaErr' = [wfaErr EXCEPT ![b] = TRUE]
    /\ UNCHANGED <<flatVars, moreVars, cancelAt, clock, startTs, result, errAt, defers, wanted, wfaTmp, inode,
                   outDir, rootfs, mnt, mntBy, publishLog, markerLog>>

\* WriteFileAtomic rolling the marker back when it returns an error.
WfaRemove_Rollback(b, next) ==
    /\ pc[b] = "wfaRemove"
    /\ wfaTmp' = [wfaTmp EXCEPT ![b] = NoFile]
    /\ wfaErr' = [wfaErr EXCEPT ![b] = FALSE]
    /\ IF wfaErr[b]
       THEN /\ Leave(b, "error", "wanted")
            /\ wanted' = NoFile
       ELSE /\ pc' = [pc EXCEPT ![b] = next]
            /\ UNCHANGED <<result, errAt, wanted>>
    /\ UNCHANGED <<flatVars, moreVars, cancelAt, clock, startTs, defers, inode, outDir, rootfs,
                   mnt, mntBy, publishLog, markerLog>>

\* WriteFileAtomic without the deferred os.Remove(tmpName).
WfaRemove_Leak(b, next) ==
    /\ pc[b] = "wfaRemove"
    /\ wfaErr' = [wfaErr EXCEPT ![b] = FALSE]
    /\ IF wfaErr[b]
       THEN Leave(b, "error", "wanted")
       ELSE /\ pc' = [pc EXCEPT ![b] = next]
            /\ UNCHANGED <<result, errAt>>
    /\ UNCHANGED <<flatVars, moreVars, cancelAt, clock, startTs, defers, wanted, wfaTmp, inode, outDir,
                   rootfs, mnt, mntBy, publishLog, markerLog>>

\* The deferred os.Remove(tmpName), then WriteFileAtomic returns to the build,
\* which goes on to `next` or returns "error writing wanted file".
WfaRemove(b, next) ==
    /\ pc[b] = "wfaRemove"
    /\ wfaTmp' = [wfaTmp EXCEPT ![b] = NoFile]
    /\ wfaErr' = [wfaErr EXCEPT ![b] = FALSE]
    /\ IF wfaErr[b]
       THEN Leave(b, "error", "wanted")
       ELSE /\ pc' = [pc EXCEPT ![b] = next]
            /\ UNCHANGED <<result, errAt>>
    /\ UNCHANGED <<flatVars, moreVars, cancelAt, clock, startTs, defers, wanted, inode, outDir, rootfs,
                   mnt, mntBy, publishLog, markerLog>>


(* ------------------- helpers on the modelled file system -------------- *)
Top(st) == st[Len(st)]
Pop(st) == SubSeq(st, 1, Len(st) - 1)

\* The device file is (re)written by build b and is now in stage s.
SetStage(i, s, b) == [inode EXCEPT ![i] = [stage |-> s, by |-> b]]

\* os.MkdirAll of a directory directly under the build directory: the build
\* directory itself comes into being with it.
WithDir(st) == IF st = "absent" THEN "dir" ELSE st

(* ============== builder.Build: the build with a build directory ======= *)
\* buildRun := fmt.Sprintf("%s-%d", digestHex, buildTimeStamp): the name of the
\* build directory and the stem of the temp device file.
BuildRun(b) == startTs[b]

\* defer func() { os.RemoveAll(buildDir) }()
DeferRemoveBuildDir(d) == d \cup {"rmBuildDir"}

\* defer os.Remove(tmpBuildFilePath)
DeferRemoveTmp(d) == d \cup {"rmTmp"}

\* os.MkdirAll(buildDir, 0o755), then the deferred os.RemoveAll is registered.
MkBuildDir(b, k) ==
    /\ pc[b] = "mkBuildDir"
    /\ \/ /\ rootfs' = [rootfs EXCEPT ![k] = WithDir(@)]
          /\ defers' = [defers EXCEPT ![b] = DeferRemoveBuildDir(@)]
          /\ pc' = [pc EXCEPT ![b] = "mkRootfs"]
          /\ UNCHANGED <<result, errAt>>
       \/ /\ Leave(b, "error", "mkBuildDir")
          /\ UNCHANGED <<rootfs, defers>>
    /\ UNCHANGED <<flatVars, moreVars, cancelAt, clock, startTs, wanted, wfaTmp, wfaErr, inode, outDir, mnt, mntBy, publishLog, markerLog>>

\* os.MkdirAll(rootfsDir, 0o755)
MkRootfs(b, k) ==
    /\ pc[b] = "mkRootfs"
    /\ \/ /\ rootfs' = [rootfs EXCEPT ![k] =
                            IF @ \in {"absent", "dir"} THEN "rootfs" ELSE @]
          /\ pc' = [pc EXCEPT ![b] = "buildFs"]
          /\ UNCHANGED <<result, errAt>>
       \/ /\ Leave(b, "error", "mkRootfs")
          /\ UNCHANGED rootfs
    /\ UNCHANGED <<flatVars, moreVars, cancelAt, clock, startTs, defers, wanted, wfaTmp, wfaErr, inode, outDir,
                   mnt, mntBy, publishLog, markerLog>>

\* b.fsBuilder.BuildFs(ctx, image.Layers, rootfsDir): MkdirAll(targetDir), then
\* every layer is extracted into it; the layers are read through the image
\* fetched under ctx, so the reads fail once ctx is cancelled.
BuildFs(b, k) ==
    /\ pc[b] = "buildFs"
    /\ \/ /\ ~Cancelled(b)
          /\ rootfs' = [rootfs EXCEPT ![k] =
                            IF @ \in {"configured", "configOnly"} THEN "configured"
                            ELSE "flattened"]
          /\ pc' = [pc EXCEPT ![b] = "writeConfig"]
          /\ UNCHANGED <<result, errAt>>
       \/ /\ rootfs' = [rootfs EXCEPT ![k] =
                            IF @ \in {"absent", "dir"} THEN "rootfs" ELSE @]
          /\ Leave(b, "error", "buildFs")
    /\ UNCHANGED <<flatVars, moreVars, cancelAt, clock, startTs, defers, wanted, wfaTmp, wfaErr, inode, outDir,
                   mnt, mntBy, publishLog, markerLog>>

\* b.configWriter.WriteConfig(ctx, rootfsDir, image.Config): MkdirAll of
\* <rootfs>/walkio, then the env and argv files.
WriteConfig(b, k) ==
    /\ pc[b] = "writeConfig"
    /\ \/ /\ rootfs' = [rootfs EXCEPT ![k] =
                            IF @ \in {"flattened", "configured"} THEN "configured"
                            ELSE "configOnly"]
          /\ pc' = [pc EXCEPT ![b] = "ndCreate"]
          /\ UNCHANGED <<result, errAt>>
       \/ /\ Leave(b, "error", "writeConfig")
          /\ UNCHANGED rootfs
    /\ UNCHANGED <<flatVars, moreVars, cancelAt, clock, startTs, defers, wanted, wfaTmp, wfaErr, inode, outDir,
                   mnt, mntBy, publishLog, markerLog>>

(* Ext4Builder.NewDevice of blockdevice.go, for build b, on                 *)
(*   o  OutputFilePath: the name of the device file in output_dir,          *)
(*   k  SourceDirPath = <build dir k>/rootfs,                               *)
(*   m  the mount point BuildDirPath/mnt.                                   *)

\* diskUsage(SourceDirPath), which needs the rootfs directory to exist, then
\* createSparseFile: os.Create makes the file or truncates the file that bears
\* the name; f.Seek and f.Write can still fail afterwards.
NdCreate(b, o, k) ==
    /\ pc[b] = "ndCreate"
    /\ \/ /\ rootfs[k] \notin {"absent", "dir"}
          /\ IF outDir[o] = NoInode
             THEN /\ outDir' = [outDir EXCEPT ![o] = b]
                  /\ inode' = SetStage(b, "sparse", b)
             ELSE /\ inode' = SetStage(outDir[o], "sparse", b)
                  /\ UNCHANGED outDir
          /\ \/ /\ pc' = [pc EXCEPT ![b] = "ndMkfs"]
                /\ UNCHANGED <<result, errAt>>
             \/ Leave(b, "error", "ndCreate")
       \/ /\ Leave(b, "error", "ndDiskUsage")
          /\ UNCHANGED <<outDir, inode>>
    /\ UNCHANGED <<flatVars, moreVars, cancelAt, clock, startTs, defers, wanted, wfaTmp, wfaErr, rootfs,
                   mnt, mntBy, publishLog, markerLog>>

\* exec.Command("mkfs.ext4", "-F", "-L", label, OutputFilePath): formats the
\* file that bears the name now; fails when there is none.
NdMkfs(b, o) ==
    /\ pc[b] = "ndMkfs"
    /\ \/ /\ outDir[o] # NoInode
          /\ inode' = SetStage(outDir[o], "formatted", b)
          /\ pc' = [pc EXCEPT ![b] = "ndMount"]
          /\ UNCHANGED <<result, errAt>>
       \/ /\ Leave(b, "error", "ndMkfs")
          /\ UNCHANGED inode
    /\ UNCHANGED <<flatVars, moreVars, cancelAt, clock, startTs, defers, wanted, wfaTmp, wfaErr, outDir,
                   rootfs, mnt, mntBy, publishLog, markerLog>>

\* os.MkdirAll(mntDir); mount -t ext4 -o loop OutputFilePath mntDir; the
\* umount is deferred.
NdMount(b, o, m) ==
    /\ pc[b] = "ndMount"
    /\ \/ /\ outDir[o] # NoInode
          /\ rootfs' = [rootfs EXCEPT ![m] = WithDir(@)]
          /\ mnt' = [mnt EXCEPT ![m] = Append(@, outDir[o])]
          /\ mntBy' = [mntBy EXCEPT ![m] = Append(@, b)]
          /\ pc' = [pc EXCEPT ![b] = "ndCopy"]
          /\ UNCHANGED <<result, errAt>>
       \/ /\ rootfs' = [rootfs EXCEPT ![m] = WithDir(@)]
          /\ Leave(b, "error", "ndMount")
          /\ UNCHANGED <<mnt, mntBy>>
       \/ /\ Leave(b, "error", "ndMount")
          /\ UNCHANGED <<rootfs, mnt, mntBy>>
    /\ UNCHANGED <<flatVars, moreVars, cancelAt, clock, startTs, defers, wanted, wfaTmp, wfaErr, inode, outDir,
                   publishLog, markerLog>>

\* cp -a -- <rootfs>/. <mnt>/. starts writing into whatever is mounted on top
\* of the mount point (into the plain directory when nothing is).
NdCopy(b, m) ==
    /\ pc[b] = "ndCopy"
    /\ inode' = IF mnt[m] # <<>> THEN SetStage(Top(mnt[m]), "partial", b) ELSE inode
    /\ pc' = [pc EXCEPT ![b] = "ndCopyEnd"]
    /\ UNCHANGED <<flatVars, moreVars, cancelAt, clock, startTs, result, errAt, defers, wanted, wfaTmp, wfaErr,
                   outDir, rootfs, mnt, mntBy, publishLog, markerLog>>

\* What the device holds when a cp that build b ran on it ends: the complete
\* image only when the source tree was the complete rootfs and nobody else
\* wrote the device meanwhile.
CopiedStage(i, k, b) ==
    IF inode[i].stage = "partial" /\ inode[i].by = b /\ rootfs[k] = "configured"
    THEN "populated" ELSE "corrupt"

\* cp ends, with or without an error; the deferred umount runs next.
NdCopyEnd(b, k, m) ==
    /\ pc[b] = "ndCopyEnd"
    /\ pc' = [pc EXCEPT ![b] = "ndUmount"]
    /\ \/ /\ inode' = IF mnt[m] # <<>>
                      THEN SetStage(Top(mnt[m]), CopiedStage(Top(mnt[m]), k, b), b)
                      ELSE inode
          /\ UNCHANGED <<result, errAt>>
       \/ /\ result' = [result EXCEPT ![b] = "error"]
          /\ errAt' = [errAt EXCEPT ![b] = "ndCopy"]
          /\ UNCHANGED inode
    /\ UNCHANGED <<flatVars, moreVars, cancelAt, clock, startTs, defers, wanted, wfaTmp, wfaErr, outDir,
                   rootfs, mnt, mntBy, publishLog, markerLog>>

\* The deferred exec.Command("umount", mntDir) detaches the topmost mount, and
\* NewDevice returns.
NdUmount(b, m) ==
    /\ pc[b] = "ndUmount"
    /\ mnt' = [mnt EXCEPT ![m] = IF @ = <<>> THEN @ ELSE Pop(@)]
    /\ mntBy' = [mntBy EXCEPT ![m] = IF @ = <<>> THEN @ ELSE Pop(@)]
    /\ pc' = [pc EXCEPT ![b] = "ndReturned"]
    /\ UNCHANGED <<flatVars, moreVars, cancelAt, clock, startTs, result, errAt, defers, wanted, wfaTmp, wfaErr,
                   inode, outDir, rootfs, publishLog, markerLog>>

\* tmpBlockDevice, err := b.blockDeviceBuilder.NewDevice(...): on an error
\* Build returns it; otherwise it defers os.Remove(tmpBuildFilePath).
NewDeviceReturned(b) ==
    /\ pc[b] = "ndReturned"
    /\ IF result[b] = "error"
       THEN /\ pc' = [pc EXCEPT ![b] = ExitPc(defers[b])]
            /\ UNCHANGED defers
       ELSE /\ pc' = [pc EXCEPT ![b] = "guard"]
            /\ defers' = [defers EXCEPT ![b] = DeferRemoveTmp(@)]
    /\ UNCHANGED <<flatVars, moreVars, cancelAt, clock, startTs, result, errAt, wanted, wfaTmp, wfaErr, inode,
                   outDir, rootfs, mnt, mntBy, publishLog, markerLog>>

\* if !isNewstBuild(wantedFile, buildTimeStamp) { return "newer build detected" }
Guard(b) ==
    /\ pc[b] = "guard"
    /\ IF isNewstBuild(wanted, startTs[b])
       THEN /\ pc' = [pc EXCEPT ![b] = "rename"]
            /\ UNCHANGED <<result, errAt>>
       ELSE Leave(b, "superseded", "")
    /\ UNCHANGED <<flatVars, moreVars, cancelAt, clock, startTs, defers, wanted, wfaTmp, wfaErr, inode, outDir,
                   rootfs, mnt, mntBy, publishLog, markerLog>>

\* os.Rename(from, <digest_hex>.ext4) in output_dir: the final name now names
\* the file `from` named, and `from` names nothing; ENOENT when `from` names
\* nothing.
Publish(from) == [outDir EXCEPT ![FinalName] = outDir[from], ![from] = NoInode]

\* os.Rename(tmpBlockDevice.Path, outputFilePath)
Rename(b) ==
    LET k == BuildRun(b) IN
    /\ pc[b] = "rename"
    /\ \/ /\ outDir[k] # NoInode
          /\ outDir' = Publish(k)
          /\ publishLog' = Append(publishLog, b)
          /\ Leave(b, "ok", "")
       \/ /\ Leave(b, "error", "rename")
          /\ UNCHANGED <<outDir, publishLog>>
    /\ UNCHANGED <<flatVars, moreVars, cancelAt, clock, startTs, defers, wanted, wfaTmp, wfaErr, inode, rootfs,
                   mnt, mntBy, markerLog>>

\* The deferred os.Remove(tmpBuildFilePath).
RmTmp(b) ==
    /\ pc[b] = "rmTmp"
    /\ outDir' = [outDir EXCEPT ![BuildRun(b)] = NoInode]
    /\ pc' = [pc EXCEPT ![b] = ExitPc(defers[b] \ {"rmTmp"})]
    /\ UNCHANGED <<flatVars, moreVars, cancelAt, clock, startTs, result, errAt, defers, wanted, wfaTmp, wfaErr,
                   inode, rootfs, mnt, mntBy, publishLog, markerLog>>

\* The deferred os.RemoveAll(buildDir) of build directory k, after which Build
\* returns. With a device still mounted below the directory, RemoveAll empties
\* the mounted file system too and then fails on the busy mount point (the
\* error is only logged): the directory stays.
RmBuildDir(b, k) ==
    /\ pc[b] = "rmBuildDir"
    /\ IF mnt[k] = <<>>
       THEN /\ rootfs' = [rootfs EXCEPT ![k] = "absent"]
            /\ UNCHANGED inode
       ELSE /\ rootfs' = [rootfs EXCEPT ![k] = "dir"]
            /\ inode' = SetStage(Top(mnt[k]), "corrupt", b)
    /\ pc' = [pc EXCEPT ![b] = "done"]
    /\ UNCHANGED <<flatVars, moreVars, cancelAt, clock, startTs, result, errAt, defers, wanted, wfaTmp, wfaErr,
                   outDir, mnt, mntBy, publishLog, markerLog>>

BuildStep(b) ==
    \/ Start(b) \/ GetImage(b, "wfaCreate")
    \/ WfaCreateTemp(b) \/ WfaWrite(b) \/ WfaRename(b) \/ WfaSyncDir(b)
    \/ WfaRemove(b, "mkBuildDir")
    \/ MkBuildDir(b, BuildRun(b)) \/ MkRootfs(b, BuildRun(b)) \/ BuildFs(b, BuildRun(b)) \/ WriteConfig(b, BuildRun(b))
    \/ NdCreate(b, BuildRun(b), BuildRun(b)) \/ NdMkfs(b, BuildRun(b))
    \/ NdMount(b, BuildRun(b), BuildRun(b)) \/ NdCopy(b, BuildRun(b))
    \/ NdCopyEnd(b, BuildRun(b), BuildRun(b)) \/ NdUmount(b, BuildRun(b))
    \/ NewDeviceReturned(b)
    \/ Guard(b) \/ Rename(b) \/ RmTmp(b) \/ RmBuildDir(b, BuildRun(b))
    \/ Crash(b) \/ Cancel(b)

Next == Tick \/ \E b \in Builds : BuildStep(b)

Spec == Init /\ [][Next]_vars


(* ======== BuildAppDevice: the build that unpacks into the mount ======= *)
\* tmpDevicePath := path.Join(opts.OutputDir, digestHex+"_tmp.ext4"): one name
\* per digest. The mount directory <TempDir>/<digest>_tmp_mount derives from it
\* (Ext4Device.mountDirName) and is one per digest too.
AppTmp == 0

\* defer appDevice.Unmount()
DeferUnmount(d) == d \cup {"unmountDev"}

\* Ext4Builder.NewDevice of ext4Device.go: createSparseFile(OutputFilePath, ...)
AdCreate(b) ==
    /\ pc[b] = "adCreate"
    /\ \/ /\ IF outDir[AppTmp] = NoInode
             THEN /\ outDir' = [outDir EXCEPT ![AppTmp] = b]
                  /\ inode' = SetStage(b, "sparse", b)
             ELSE /\ inode' = SetStage(outDir[AppTmp], "sparse", b)
                  /\ UNCHANGED outDir
          /\ \/ /\ pc' = [pc EXCEPT ![b] = "adMkfs"]
                /\ UNCHANGED <<result, errAt>>
             \/ Leave(b, "error", "adCreate")
       \/ /\ Leave(b, "error", "adCreate")
          /\ UNCHANGED <<outDir, inode>>
    /\ UNCHANGED <<flatVars, moreVars, cancelAt, clock, startTs, defers, wanted, wfaTmp, wfaErr, rootfs,
                   mnt, mntBy, publishLog, markerLog>>

\* ... then mkfs.ext4 -F -L APP_FS OutputFilePath; NewDevice returns the device.
AdMkfs(b) ==
    /\ pc[b] = "adMkfs"
    /\ \/ /\ outDir[AppTmp] # NoInode
          /\ inode' = SetStage(outDir[AppTmp], "formatted", b)
          /\ pc' = [pc EXCEPT ![b] = "adMountRm"]
          /\ UNCHANGED <<result, errAt>>
       \/ /\ Leave(b, "error", "adMkfs")
          /\ UNCHANGED inode
    /\ UNCHANGED <<flatVars, moreVars, cancelAt, clock, startTs, defers, wanted, wfaTmp, wfaErr, outDir, rootfs, mnt, mntBy, publishLog, markerLog>>

\* Ext4Device.Mount, first statement: os.RemoveAll(mountDir). With a device
\* mounted there it empties that device and fails on the busy mount point.
AdMountRemoveAll(b) ==
    /\ pc[b] = "adMountRm"
    /\ IF mnt[AppTmp] = <<>>
       THEN /\ rootfs' = [rootfs EXCEPT ![AppTmp] = "absent"]
            /\ pc' = [pc EXCEPT ![b] = "adMountMkdir"]
            /\ UNCHANGED <<inode, result, errAt>>
       ELSE /\ inode' = SetStage(Top(mnt[AppTmp]), "corrupt", b)
            /\ Leave(b, "error", "adMount")
            /\ UNCHANGED rootfs
    /\ UNCHANGED <<flatVars, moreVars, cancelAt, clock, startTs, defers, wanted, wfaTmp, wfaErr, outDir, mnt, mntBy, publishLog, markerLog>>

\* Ext4Device.Mount: os.Mkdir(mountDir, 0o755), which fails when it exists.
AdMountMkdir(b) ==
    /\ pc[b] = "adMountMkdir"
    /\ \/ /\ rootfs[AppTmp] = "absent"
          /\ rootfs' = [rootfs EXCEPT ![AppTmp] = "dir"]
          /\ pc' = [pc EXCEPT ![b] = "adMountMount"]
          /\ UNCHANGED <<result, errAt>>
       \/ /\ Leave(b, "error", "adMount")
          /\ UNCHANGED rootfs
    /\ UNCHANGED <<flatVars, moreVars, cancelAt, clock, startTs, defers, wanted, wfaTmp, wfaErr, inode, outDir,
                   mnt, mntBy, publishLog, markerLog>>

\* Ext4Device.Mount: sudo mount d.path mountDir; on success BuildAppDevice
\* defers appDevice.Unmount().
AdMountMount(b) ==
    /\ pc[b] = "adMountMount"
    /\ \/ /\ outDir[AppTmp] # NoInode
          /\ rootfs[AppTmp] # "absent"
          /\ mnt' = [mnt EXCEPT ![AppTmp] = Append(@, outDir[AppTmp])]
          /\ mntBy' = [mntBy EXCEPT ![AppTmp] = Append(@, b)]
          /\ defers' = [defers EXCEPT ![b] = DeferUnmount(@)]
          /\ pc' = [pc EXCEPT ![b] = "adUnpack"]
          /\ UNCHANGED <<result, errAt>>
       \/ /\ Leave(b, "error", "adMount")
          /\ UNCHANGED <<mnt, mntBy, defers>>
    /\ UNCHANGED <<flatVars, moreVars, cancelAt, clock, startTs, wanted, wfaTmp, wfaErr, inode, outDir, rootfs, publishLog, markerLog>>

\* fs.UnpackImage(ctx, image.Layers, mountDir): the layers are extracted into
\* whatever is mounted on top of mountDir (into the plain directory, created
\* if need be, when nothing is).
AdUnpack(b) ==
    /\ pc[b] = "adUnpack"
    /\ IF mnt[AppTmp] # <<>>
       THEN /\ inode' = SetStage(Top(mnt[AppTmp]), "partial", b)
            /\ UNCHANGED rootfs
       ELSE /\ rootfs' = [rootfs EXCEPT ![AppTmp] = WithDir(@)]
            /\ UNCHANGED inode
    /\ \/ /\ ~Cancelled(b)
          /\ pc' = [pc EXCEPT ![b] = "adConfig"]
          /\ UNCHANGED <<result, errAt>>
       \/ Leave(b, "error", "adUnpack")
    /\ UNCHANGED <<flatVars, moreVars, cancelAt, clock, startTs, defers, wanted, wfaTmp, wfaErr, outDir, mnt, mntBy, publishLog, markerLog>>

\* What the mounted device holds once build b has written the config files
\* into it: the complete image only on top of b's own, undisturbed layers.
ConfiguredStage(i, b) ==
    IF inode[i].stage = "partial" /\ inode[i].by = b THEN "populated" ELSE "corrupt"

\* fs.WriteContainerConfig(ctx, image.Config, mountDir)
AdConfig(b) ==
    /\ pc[b] = "adConfig"
    /\ \/ /\ IF mnt[AppTmp] # <<>>
             THEN /\ inode' = SetStage(Top(mnt[AppTmp]),
                                       ConfiguredStage(Top(mnt[AppTmp]), b), b)
                  /\ UNCHANGED rootfs
             ELSE /\ rootfs' = [rootfs EXCEPT ![AppTmp] = WithDir(@)]
                  /\ UNCHANGED inode
          /\ pc' = [pc EXCEPT ![b] = "adGuard"]
          /\ UNCHANGED <<result, errAt>>
       \/ /\ Leave(b, "error", "adConfig")
          /\ UNCHANGED <<inode, rootfs>>
    /\ UNCHANGED <<flatVars, moreVars, cancelAt, clock, startTs, defers, wanted, wfaTmp, wfaErr, outDir, mnt, mntBy, publishLog, markerLog>>

\* if !isNewstBuild(wantedFile, buildTimeStamp) { return errors.New(...) }
AdGuard(b) ==
    /\ pc[b] = "adGuard"
    /\ IF isNewstBuild(wanted, startTs[b])
       THEN /\ pc' = [pc EXCEPT ![b] = "adUnmount"]
            /\ UNCHANGED <<result, errAt>>
       ELSE Leave(b, "superseded", "")
    /\ UNCHANGED <<flatVars, moreVars, cancelAt, clock, startTs, defers, wanted, wfaTmp, wfaErr, inode, outDir,
                   rootfs, mnt, mntBy, publishLog, markerLog>>

\* Ext4Device.Unmount: nothing when mountDir does not exist; sudo umount
\* mountDir (an error when nothing is mounted there) detaches the topmost
\* mount; then os.RemoveAll(mountDir), which empties a device that is still
\* mounted below and leaves the busy directory in place.
Unmount(b) ==
    IF rootfs[AppTmp] = "absent" \/ mnt[AppTmp] = <<>>
    THEN UNCHANGED <<rootfs, mnt, mntBy, inode>>
    ELSE /\ mnt' = [mnt EXCEPT ![AppTmp] = Pop(@)]
         /\ mntBy' = [mntBy EXCEPT ![AppTmp] = Pop(@)]
         /\ IF Len(mnt[AppTmp]) = 1
            THEN /\ rootfs' = [rootfs EXCEPT ![AppTmp] = "absent"]
                 /\ UNCHANGED inode
            ELSE /\ inode' = SetStage(Top(Pop(mnt[AppTmp])), "corrupt", b)
                 /\ UNCHANGED rootfs

\* appDevice.Unmount() before the publication (its error is dropped).
AdUnmount(b) ==
    /\ pc[b] = "adUnmount"
    /\ Unmount(b)
    /\ pc' = [pc EXCEPT ![b] = "adRename"]
    /\ UNCHANGED <<flatVars, moreVars, cancelAt, clock, startTs, result, errAt, defers, wanted, wfaTmp, wfaErr,
                   outDir, publishLog, markerLog>>

\* os.Rename(tmpDevicePath, outputFilePath)
AdRename(b) ==
    /\ pc[b] = "adRename"
    /\ \/ /\ outDir[AppTmp] # NoInode
          /\ outDir' = Publish(AppTmp)
          /\ publishLog' = Append(publishLog, b)
          /\ Leave(b, "ok", "")
       \/ /\ Leave(b, "error", "adRename")
          /\ UNCHANGED <<outDir, publishLog>>
    /\ UNCHANGED <<flatVars, moreVars, cancelAt, clock, startTs, defers, wanted, wfaTmp, wfaErr, inode, rootfs, mnt, mntBy, markerLog>>

\* The deferred appDevice.Unmount(), after which BuildAppDevice returns.
AdDeferredUnmount(b) ==
    /\ pc[b] = "deferUnmount"
    /\ Unmount(b)
    /\ pc' = [pc EXCEPT ![b] = "done"]
    /\ UNCHANGED <<flatVars, moreVars, cancelAt, clock, startTs, result, errAt, defers, wanted, wfaTmp, wfaErr,
                   outDir, publishLog, markerLog>>

AppStep(b) ==
    \/ Start(b) \/ GetImage(b, "wfaCreate")
    \/ WfaCreateTemp(b) \/ WfaWrite(b) \/ WfaRename(b) \/ WfaSyncDir(b)
    \/ WfaRemove(b, "adCreate")
    \/ AdCreate(b) \/ AdMkfs(b)
    \/ AdMountRemoveAll(b) \/ AdMountMkdir(b) \/ AdMountMount(b)
    \/ AdUnpack(b) \/ AdConfig(b) \/ AdGuard(b) \/ AdUnmount(b) \/ AdRename(b)
    \/ AdDeferredUnmount(b)
    \/ Crash(b) \/ Cancel(b)

NextApp == Tick \/ \E b \in Builds : AppStep(b)

SpecApp == Init /\ [][NextApp]_vars


(* ========= builder.Build of builder.go: the inhibiting build ========== *)
\* buildDir := filepath.Join(workDir, "walkio", "build", digestHex): one build
\* directory per digest.
DigestDir == 0

\* BuildDirPath is not set in the options handed to NewDevice, so its mount
\* point filepath.Join("", "mnt") is the directory mnt of the working directory.
CwdMnt == 1

\* The cache check that never finds the artifact.
InhCheckCached_Miss(b, here, next) ==
    /\ pc[b] = here
    /\ pc' = [pc EXCEPT ![b] = next]
    /\ UNCHANGED <<result, errAt>>
    /\ UNCHANGED <<flatVars, moreVars, cancelAt, clock, startTs, defers, wanted, wfaTmp, wfaErr, inode, outDir,
                   rootfs, mnt, mntBy, publishLog, markerLog>>

\* if fileExists(outputPath) { return &BuildResult{..., Cached: true} }
\* (before and again after locker.AcquireLock, which for the NoOpLocker that
\* the program is wired with returns at once and whose Release does nothing).
InhCheckCached(b, here, next) ==
    /\ pc[b] = here
    /\ IF final # NoInode
       THEN Leave(b, "cached", "")
       ELSE /\ pc' = [pc EXCEPT ![b] = next]
            /\ UNCHANGED <<result, errAt>>
    /\ UNCHANGED <<flatVars, moreVars, cancelAt, clock, startTs, defers, wanted, wfaTmp, wfaErr, inode, outDir,
                   rootfs, mnt, mntBy, publishLog, markerLog>>

\* blockDevice, err := b.blockDeviceBuilder.NewDevice(...{OutputFilePath:
\* outputPath}): Build returns the error or the result with Cached: false.
InhNewDeviceReturned(b) ==
    /\ pc[b] = "ndReturned"
    /\ IF result[b] = "error"
       THEN /\ pc' = [pc EXCEPT ![b] = ExitPc(defers[b])]
            /\ UNCHANGED <<result, errAt>>
       ELSE Leave(b, "ok", "")
    /\ UNCHANGED <<flatVars, moreVars, cancelAt, clock, startTs, defers, wanted, wfaTmp, wfaErr, inode, outDir,
                   rootfs, mnt, mntBy, publishLog, markerLog>>

InhibitStep(b) ==
    \/ Start(b) \/ GetImage(b, "inhCheck")
    \/ InhCheckCached(b, "inhCheck", "inhLocked")
    \/ InhCheckCached(b, "inhLocked", "mkBuildDir")
    \/ MkBuildDir(b, DigestDir) \/ MkRootfs(b, DigestDir)
    \/ BuildFs(b, DigestDir) \/ WriteConfig(b, DigestDir)
    \/ NdCreate(b, FinalName, DigestDir) \/ NdMkfs(b, FinalName)
    \/ NdMount(b, FinalName, CwdMnt) \/ NdCopy(b, CwdMnt)
    \/ NdCopyEnd(b, DigestDir, CwdMnt) \/ NdUmount(b, CwdMnt)
    \/ InhNewDeviceReturned(b)
    \/ RmBuildDir(b, DigestDir)
    \/ Crash(b) \/ Cancel(b)

NextInhibit == Tick \/ \E b \in Builds : InhibitStep(b)

SpecInhibit == Init /\ [][NextInhibit]_vars

(* ------------------- LayerFlattener.BuildFs, the steps ---------------- *)
\* The layer sequences BuildFs is called with: 1..MaxEntries tar entries, in
\* one layer or cut into two.
CutLayers(es, cut) ==
    IF cut = Len(es) THEN <<es>>
    ELSE <<SubSeq(es, 1, cut), SubSeq(es, cut + 1, Len(es))>>

FlatCallWith(hs) ==
    /\ BuildInit
    /\ MoreIdle
    /\ \E k \in 1..MaxEntries : \E es \in [1..k -> hs] : \E cut \in 1..k :
          layers = CutLayers(es, cut)
    /\ li = 1
    /\ ei = 1
    /\ tree = HostTree
    /\ idata = HostData
    /\ flPc = "start"
    /\ flErr = ""

FlatCall == FlatCallWith(Headers)

\* BuildFs is called with a ctx nobody cancels.
InitFlat == FlatCall /\ flCtx = "live"

\* The header tarReader.Next() has just returned.
Cur == layers[li][ei]
AtEntry == flPc = "run" /\ li <= Len(layers) /\ ei <= Len(layers[li])

\* The entry's error goes up through extractLayer to BuildFs, which returns it.
FailWith(e) ==
    /\ flErr' = e
    /\ flPc' = "done"
    /\ UNCHANGED <<layers, li, ei>>

\* continue / return nil: on to the next tarReader.Next().
NextEntry ==
    /\ ei' = ei + 1
    /\ UNCHANGED <<layers, li, flPc, flErr>>

\* BuildFs: os.MkdirAll(targetDir, 0o755)
BuildFsStart ==
    /\ flPc = "start"
    /\ IF MkdirAllOk(tree, TargetDir)
       THEN /\ tree' = MkdirAll(tree, TargetDir)
            /\ flPc' = "run"
            /\ UNCHANGED <<layers, li, ei, flErr>>
       ELSE /\ FailWith("create target directory")
            /\ UNCHANGED tree
    /\ UNCHANGED <<idata, flCtx, buildVars, moreVars>>

\* extractLayer: tarReader.Next() returns io.EOF; BuildFs takes the next layer.
LayerEnd ==
    /\ flPc = "run"
    /\ li <= Len(layers)
    /\ ei > Len(layers[li])
    /\ li' = li + 1
    /\ ei' = 1
    /\ UNCHANGED <<layers, tree, idata, flPc, flErr, flCtx, buildVars, moreVars>>

\* BuildFs: the loop over the layers is over; return nil.
BuildFsReturn ==
    /\ flPc = "run"
    /\ li > Len(layers)
    /\ flPc' = "done"
    /\ UNCHANGED <<layers, li, ei, tree, idata, flErr, flCtx, buildVars, moreVars>>

\* handleWhiteout(targetDir, header.Name)
HandleWhiteout ==
    /\ AtEntry
    /\ isWhiteout(Cur.name)
    /\ IF IsOpaque(Cur.name)
       THEN LET emptied == RemoveAll(tree, OpaqueDir(Cur.name))
            IN  IF MkdirAllOk(emptied, OpaqueDir(Cur.name))
                THEN /\ tree' = MkdirAll(emptied, OpaqueDir(Cur.name))
                     /\ NextEntry
                ELSE /\ tree' = emptied
                     /\ FailWith("recreate opaque directory")
       ELSE /\ tree' = RemoveAll(tree, DeletePath(Cur.name))
            /\ NextEntry
    /\ UNCHANGED <<idata, flCtx, buildVars, moreVars>>

\* extractTarEntry: if !strings.HasPrefix(targetPath, targetDir) { return error }
ExtractPathTraversal ==
    /\ AtEntry
    /\ ~isWhiteout(Cur.name)
    /\ ~HasPrefix(TargetPath(Cur.name), TargetDir)
    /\ FailWith("path traversal detected")
    /\ UNCHANGED <<tree, idata, flCtx, buildVars, moreVars>>

\* An entry that got past the prefix check, of type tf.
Extracting(tf) ==
    /\ AtEntry
    /\ ~isWhiteout(Cur.name)
    /\ HasPrefix(TargetPath(Cur.name), TargetDir)
    /\ Cur.typeflag = tf

\* case tar.TypeDir: os.MkdirAll(targetPath, mode)
ExtractDir ==
    /\ Extracting("dir")
    /\ IF MkdirAllOk(tree, TargetPath(Cur.name))
       THEN /\ tree' = MkdirAll(tree, TargetPath(Cur.name))
            /\ NextEntry
       ELSE /\ FailWith("mkdir")
            /\ UNCHANGED tree
    /\ UNCHANGED <<idata, flCtx, buildVars, moreVars>>

\* os.MkdirAll(filepath.Dir(targetPath)), then the file is opened with
\* O_CREATE|O_TRUNC and `bytes` are written: an existing file keeps its inode
\* and gets the new bytes, a directory cannot be opened for writing.
WriteFile(tp, bytes) ==
    IF ~MkdirAllOk(tree, Dir(tp))
    THEN /\ FailWith("mkdir parent")
         /\ UNCHANGED <<tree, idata>>
    ELSE LET made == MkdirAll(tree, Dir(tp))
         IN  IF made[tp].kind = "dir"
             THEN /\ tree' = made
                  /\ FailWith("open file")
                  /\ UNCHANGED idata
             ELSE IF made[tp].kind = "file"
             THEN /\ tree' = made
                  /\ idata' = [idata EXCEPT ![made[tp].ino] = bytes]
                  /\ NextEntry
             ELSE /\ tree' = [made EXCEPT ![tp] = FileNode(<<li, ei>>)]
                  /\ idata' = [idata EXCEPT ![<<li, ei>>] = bytes]
                  /\ NextEntry

\* case tar.TypeReg: MkdirAll of the parent, os.OpenFile, io.CopyN
ExtractReg ==
    /\ Extracting("reg")
    /\ WriteFile(TargetPath(Cur.name), <<li, ei>>)
    /\ UNCHANGED <<flCtx, buildVars, moreVars>>

\* case tar.TypeLink: an empty file when the link target fails the prefix
\* check, os.Link(linkTarget, targetPath) otherwise (which needs the target
\* to be a file, the new name to be free and its directory to exist).
ExtractLink ==
    /\ Extracting("link")
    /\ LET tp == TargetPath(Cur.name)
           lt == LinkTarget(Cur.linkname)
       IN  IF ~HasPrefix(lt, TargetDir)
           THEN WriteFile(tp, <<>>)
           ELSE IF tree[lt].kind = "file" /\ tree[tp].kind = "none" /\ tree[Dir(tp)].kind = "dir"
           THEN /\ tree' = [tree EXCEPT ![tp] = tree[lt]]
                /\ NextEntry
                /\ UNCHANGED idata
           ELSE /\ FailWith("create hardlink")
                /\ UNCHANGED <<tree, idata>>
    /\ UNCHANGED <<flCtx, buildVars, moreVars>>

\* case tar.TypeChar, tar.TypeBlock, tar.TypeFifo, default: return nil
ExtractSkip ==
    /\ AtEntry
    /\ ~isWhiteout(Cur.name)
    /\ HasPrefix(TargetPath(Cur.name), TargetDir)
    /\ Cur.typeflag \notin {"dir", "reg", "symlink", "link"}
    /\ NextEntry
    /\ UNCHANGED <<tree, idata, flCtx, buildVars, moreVars>>

NextFlat ==
    \/ BuildFsStart \/ LayerEnd \/ BuildFsReturn
    \/ HandleWhiteout \/ ExtractPathTraversal
    \/ ExtractDir \/ ExtractReg \/ ExtractLink \/ ExtractSkip

SpecFlat == InitFlat /\ [][NextFlat]_vars

\* BuildFs is called with a ctx that is cancelled already or that its caller
\* cancels at some moment of the extraction. extractLayer hands ctx to
\* layer.Compressed, which does not read it (registryLayer.Compressed); no
\* other line of BuildFs, extractLayer, handleWhiteout or extractTarEntry
\* reads ctx.
EntriesToCome ==
    \/ flPc = "start"
    \/ /\ flPc = "run"
       /\ \E j \in li..Len(layers) : IF j = li THEN ei <= Len(layers[j]) ELSE Len(layers[j]) > 0

CtxCancel ==
    /\ flPc \in {"start", "run"}
    /\ flCtx = "live"
    /\ flCtx' = IF EntriesToCome THEN "cancelled" ELSE "late"
    /\ UNCHANGED <<layers, li, ei, tree, idata, flPc, flErr, buildVars, moreVars>>

InitFlatCtx == FlatCall /\ flCtx \in {"live", "cancelled"}

NextFlatCtx == NextFlat \/ CtxCancel

SpecFlatCtx == InitFlatCtx /\ [][NextFlatCtx]_vars

(* ------------ BuildFs on a rootfs that holds symbolic links ----------- *)
\* The kernel's limit on the symbolic links followed in one path lookup.
MaxSymlinks == 40

\* The names between the separators of a path.
Components(p) == SelectSeq(SplitSlash(p), LAMBDA e : e # <<>>)

\* A lookup that fails (ENOENT, ENOTDIR, ELOOP).
ErrPath == <<>>

\* The kernel's path lookup from the directory cur over the names in rest:
\* a symbolic link among the directories of the path is followed, the last
\* name too when `follow` is set; the path the lookup ends at.
RECURSIVE Walk(_, _, _, _, _)
Walk(t, cur, rest, follow, fuel) ==
    IF rest = <<>> THEN cur
    ELSE LET q == Join(<<cur, Head(rest)>>)
             more == Tail(rest)
         IN  IF q \notin AllPaths THEN ErrPath
             ELSE IF t[q].kind = "symlink" /\ (more # <<>> \/ follow)
             THEN IF fuel = 0 THEN ErrPath
                  ELSE Walk(t, IF Head(t[q].link) = Slash THEN <<Slash>> ELSE cur,
                            Components(t[q].link) \o more, follow, fuel - 1)
             ELSE IF more # <<>> /\ t[q].kind # "dir" THEN ErrPath
             ELSE Walk(t, q, more, follow, fuel)

\* os.Stat(p) follows a link at p, os.Lstat(p) does not.
Stat(t, p) == Walk(t, <<Slash>>, Components(p), TRUE, MaxSymlinks)
Lstat(t, p) == Walk(t, <<Slash>>, Components(p), FALSE, MaxSymlinks)

KindAt(t, r) == IF r = ErrPath THEN "none" ELSE t[r].kind

\* os.MkdirAll(p): nil when Stat finds a directory, ENOTDIR when it finds
\* anything else; otherwise MkdirAll of the parent, then Mkdir(p), whose
\* error counts only when Lstat(p) is not a directory.
RECURSIVE MkdirAllSym(_, _)
MkdirAllSym(t, p) ==
    IF KindAt(t, Stat(t, p)) = "dir" THEN [ok |-> TRUE, tree |-> t]
    ELSE IF KindAt(t, Stat(t, p)) # "none" THEN [ok |-> FALSE, tree |-> t]
    ELSE LET up == IF Dir(p) = p THEN [ok |-> TRUE, tree |-> t] ELSE MkdirAllSym(t, Dir(p))
             r == Lstat(up.tree, p)
         IN  IF ~up.ok THEN up
             ELSE IF r # ErrPath /\ up.tree[r].kind = "none"
             THEN [ok |-> TRUE, tree |-> [up.tree EXCEPT ![r] = DirNode]]
             ELSE [ok |-> KindAt(up.tree, r) = "dir", tree |-> up.tree]

\* os.Remove(p): unlink, or rmdir of an empty directory; nothing changes when
\* it fails.
Remove(t, p) ==
    LET r == Lstat(t, p)
    IN  IF KindAt(t, r) = "none" THEN t
        ELSE IF t[r].kind = "dir"
                /\ \E q \in AllPaths : q # r /\ r \in Above[q] /\ t[q].kind # "none"
        THEN t
        ELSE [t EXCEPT ![r] = NoNode]

\* case tar.TypeSymlink: _ = os.Remove(targetPath); os.Symlink(header.Linkname,
\* targetPath), which fails when the name is still taken or its directory
\* does not exist.
ExtractSymlink ==
    /\ Extracting("symlink")
    /\ LET removed == Remove(tree, TargetPath(Cur.name))
           r == Lstat(removed, TargetPath(Cur.name))
       IN  IF r # ErrPath /\ removed[r].kind = "none"
           THEN /\ tree' = [removed EXCEPT ![r] = SymNode(Cur.linkname)]
                /\ NextEntry
           ELSE /\ tree' = removed
                /\ FailWith("create symlink")
    /\ UNCHANGED <<idata, flCtx, buildVars, moreVars>>

\* case tar.TypeDir, where names of the path can be symbolic links
ExtractDirSym ==
    /\ Extracting("dir")
    /\ LET made == MkdirAllSym(tree, TargetPath(Cur.name))
       IN  /\ tree' = made.tree
           /\ IF made.ok THEN NextEntry ELSE FailWith("mkdir")
    /\ UNCHANGED <<idata, flCtx, buildVars, moreVars>>

\* case tar.TypeReg, where names of the path can be symbolic links: os.OpenFile
\* with O_CREATE|O_WRONLY|O_TRUNC follows a link at targetPath and writes the
\* file the link names, creating it when there is none.
ExtractRegSym ==
    /\ Extracting("reg")
    /\ LET tp == TargetPath(Cur.name)
           made == MkdirAllSym(tree, Dir(tp))
           r == Stat(made.tree, tp)
       IN  IF ~made.ok
           THEN /\ tree' = made.tree
                /\ FailWith("mkdir parent")
                /\ UNCHANGED idata
           ELSE IF r = ErrPath \/ KindAt(made.tree, r) = "dir"
           THEN /\ tree' = made.tree
                /\ FailWith("open file")
                /\ UNCHANGED idata
           ELSE IF made.tree[r].kind = "file"
           THEN /\ tree' = made.tree
                /\ idata' = [idata EXCEPT ![made.tree[r].ino] = <<li, ei>>]
                /\ NextEntry
           ELSE /\ tree' = [made.tree EXCEPT ![r] = FileNode(<<li, ei>>)]
                /\ idata' = [idata EXCEPT ![<<li, ei>>] = <<li, ei>>]
                /\ NextEntry
    /\ UNCHANGED <<flCtx, buildVars, moreVars>>

InitSym == FlatCallWith(SymHeaders) /\ flCtx = "live"

NextSym ==
    \/ BuildFsStart \/ LayerEnd \/ BuildFsReturn
    \/ ExtractSymlink \/ ExtractDirSym \/ ExtractRegSym

SpecSym == InitSym /\ [][NextSym]_vars

(* ----------------------- WriteConfig, the steps ----------------------- *)
MaxList == 2

\* unicode.IsSpace, on the characters of the inputs below.
Space == {" ", "\n", "\t"}

\* strings.TrimSpace
RECURSIVE TrimLeft(_)
TrimLeft(s) == IF s # <<>> /\ Head(s) \in Space THEN TrimLeft(Tail(s)) ELSE s
RECURSIVE TrimRight(_)
TrimRight(s) ==
    IF s # <<>> /\ s[Len(s)] \in Space THEN TrimRight(SubSeq(s, 1, Len(s) - 1)) ELSE s
TrimSpace(s) == TrimRight(TrimLeft(s))

\* The strings of an image config: empty, padded with blanks, plain, holding
\* a line break (a shell script handed to sh -c, a multi-line value).
ConfigStrings ==
    { <<>>, <<" ", "a", " ">>, <<"b">>, <<"a", "\n", "b">> }
WorkingDirs ==
    { <<>>, <<"/", "w">>, <<"/", "w", "\n">> }
StringLists == UNION { [1..n -> ConfigStrings] : n \in 0..MaxList }

\* writer.WriteString(strings.TrimSpace(line)); writer.WriteRune('\n'), for
\* every line of a list in order, appended to the buffer.
RECURSIVE WriteLines(_, _)
WriteLines(buf, lines) ==
    IF lines = <<>> THEN buf
    ELSE WriteLines(buf \o TrimSpace(Head(lines)) \o <<"\n">>, Tail(lines))

WorkdirKey == <<"W", "O", "R", "K", "D", "I", "R", "=">>

\* writeEnv: the bytes handed to os.WriteFile
writeEnv(c) ==
    LET workdir == IF Len(c.WorkingDir) > 0 THEN c.WorkingDir ELSE <<"/">>
    IN  WriteLines(<<>>, c.Env) \o WorkdirKey \o workdir

\* writeArgv: the bytes handed to os.WriteFile
writeArgv(c) == WriteLines(WriteLines(<<>>, c.Entrypoint), c.Cmd)

InitConfig ==
    /\ OutsideCfgIdle
    /\ config \in [Env : StringLists, Entrypoint : StringLists, Cmd : StringLists,
                   WorkingDir : WorkingDirs]
    /\ envFile = <<>>
    /\ argvFile = <<>>
    /\ cwPc = "start"

\* WriteConfig: os.MkdirAll(configDir); writeEnv(configDir, config)
WriteEnv ==
    /\ cwPc = "start"
    /\ envFile' = writeEnv(config)
    /\ cwPc' = "env"
    /\ UNCHANGED <<config, argvFile, outsideCfg>>

\* WriteConfig: writeArgv(configDir, config); return nil
WriteArgv ==
    /\ cwPc = "env"
    /\ argvFile' = writeArgv(config)
    /\ cwPc' = "done"
    /\ UNCHANGED <<config, envFile, outsideCfg>>

NextConfig == WriteEnv \/ WriteArgv

SpecConfig == InitConfig /\ [][NextConfig]_vars

(* ------------------- NewDevice, the size rule: steps ------------------ *)
MaxMiB == 16
MiB == 1024 * 1024

\* int64(7*1024*1024)
MinSize == 7 * MiB

\* The sizes asked for and the content sizes du reports: around every MiB up
\* to the bound, one byte less and one byte more included.
Sizes == { k * MiB + d : k \in 0..MaxMiB, d \in {-1, 0, 1} } \ {-1, 0}

Max(a, b) == IF a >= b THEN a ELSE b

InitSize ==
    /\ OutsideSzIdle
    /\ \/ \E n \in Sizes : opts = [given |-> TRUE, SizeBytes |-> n, content |-> 0]
       \/ \E n \in Sizes : opts = [given |-> FALSE, SizeBytes |-> 0, content |-> n]
    /\ fileSize = 0
    /\ devSize = 0
    /\ szPc = "start"
    /\ szErr = ""

\* createSparseFile(path, sizeBytes): Seek(sizeBytes-1, 0) and one byte
\* written leave a file of sizeBytes bytes.
createSparseFile(sizeBytes) ==
    /\ fileSize' = sizeBytes
    /\ szPc' = "created"
    /\ UNCHANGED <<opts, devSize, szErr, outsideSz>>

\* NewDevice with opts.SizeBytes (ext4Device.go): the file
SizedCreate ==
    /\ szPc = "start"
    /\ opts.given
    /\ createSparseFile(Max(opts.SizeBytes, MinSize))

\* NewDevice with opts.SizeBytes: mkfs.ext4 and the device returned
SizedReturn ==
    /\ szPc = "created"
    /\ opts.given
    /\ devSize' = opts.SizeBytes
    /\ szPc' = "done"
    /\ UNCHANGED <<opts, fileSize, szErr, outsideSz>>

\* NewDevice from the content of SourceDirPath (blockdevice.go): diskUsage,
\* the 15% added, the file
ContentCreate ==
    /\ szPc = "start"
    /\ ~opts.given
    /\ createSparseFile((opts.content * 115) \div 100)

\* NewDevice from the content: mkfs.ext4, mount, cp, umount and the device
\* returned with actualSize
ContentReturn ==
    /\ szPc = "created"
    /\ ~opts.given
    /\ devSize' = fileSize
    /\ szPc' = "done"
    /\ UNCHANGED <<opts, fileSize, szErr, outsideSz>>

NextSize == SizedCreate \/ SizedReturn \/ ContentCreate \/ ContentReturn

SpecSize == InitSize /\ [][NextSize]_vars

(* --------------------- BuildStateDevice, the steps -------------------- *)
MaxCalls == 4

\* opts.OutputDir and the values of opts.AppID
StateDir == <<"/", "o">>
AppIDs == { <<"a">>, <<"b">> }

\* uuid.String() of the n-th UUID that uuid.NewV7() hands out: different
\* strings for different n.
Hex == <<"0", "1", "2", "3", "4", "5", "6", "7", "8", "9", "a", "b", "c", "d", "e", "f">>
UuidString(n) == <<Hex[((n \div 16) % 16) + 1], Hex[(n % 16) + 1]>>

\* devicePath := path.Join(opts.OutputDir, opts.AppID+"_"+uuid.String())
devicePath(app, n) == Join(<<StateDir, app \o <<"_">> \o UuidString(n)>>)

InitState ==
    /\ OutsideStIdle
    /\ StIdle

\* BuildStateDevice: uuid.NewV7(), NewDevice at devicePath, the path returned.
BuildStateDevice(app) ==
    /\ stUuids < MaxCalls
    /\ stUuids' = stUuids + 1
    /\ stFiles' = stFiles \cup {devicePath(app, stUuids)}
    /\ stRet' = Append(stRet, [app |-> app, uuid |-> UuidString(stUuids),
                               err |-> FALSE, path |-> devicePath(app, stUuids)])
    /\ UNCHANGED outsideSt

\* BuildStateDevice: NewDevice fails, in createSparseFile before the file
\* exists or later (mkfs.ext4) with the file left behind; the error is returned.
BuildStateDeviceFails(app) ==
    /\ stUuids < MaxCalls
    /\ stUuids' = stUuids + 1
    /\ \/ stFiles' = stFiles \cup {devicePath(app, stUuids)}
       \/ UNCHANGED stFiles
    /\ stRet' = Append(stRet, [app |-> app, uuid |-> UuidString(stUuids),
                               err |-> TRUE, path |-> <<>>])
    /\ UNCHANGED outsideSt

NextState == \E app \in AppIDs : BuildStateDevice(app) \/ BuildStateDeviceFails(app)

SpecState == InitState /\ [][NextState]_vars

(* ------------------------------ IPPool -------------------------------- *)
MaxIPs == 3

\* The vmID strings the pools are called with; the type is string, and no
\* call checks that it is not empty.
VMIDs == {"", "v1", "v2"}

\* ipToUint32 and uint32ToIP, on IPv4 addresses as their four bytes
ipToUint32(ip) == ip[1] * 16777216 + ip[2] * 65536 + ip[3] * 256 + ip[4]
uint32ToIP(n) ==
    <<(n \div 16777216) % 256, (n \div 65536) % 256, (n \div 256) % 256, n % 256>>

\* ipPoolStart and ipPoolEnd: a range that runs over the end of a /24.
IpStart == <<10, 0, 0, 254>>
IpEnd == uint32ToIP(ipToUint32(IpStart) + MaxIPs - 1)

\* The addresses ReleaseIP is called with: those of the range and the two
\* next to it.
CallIPs ==
    { uint32ToIP(n) : n \in (ipToUint32(IpStart) - 1)..(ipToUint32(IpEnd) + 1) }

\* m[k] = v of a Go map: the key is added when the map has none.
MapSet(m, k, v) == [x \in (DOMAIN m) \cup {k} |-> IF x = k THEN v ELSE m[x]]

\* NewIPPool(ipPoolStart, ipPoolEnd)
NewIPPool ==
    LET start == ipToUint32(IpStart)
        end == ipToUint32(IpEnd)
    IN  [ip \in { uint32ToIP(i) : i \in start..end } |-> ""]

InitIP ==
    /\ OutsideIpIdle
    /\ ipPool = NewIPPool
    /\ ipOwner = [ip \in DOMAIN NewIPPool |-> <<>>]
    /\ ipRet = NoCall

\* The call is over: what it was and what it returned.
IpReturn(op, vm, arg, out, err) ==
    ipRet' = [seq |-> 1 - ipRet.seq, op |-> op, vm |-> vm, arg |-> arg,
              out |-> out, err |-> err]

\* AllocateIP(vmID), under p.mu: the first address of the map's iteration
\* (any order) that maps to "" is given to vmID; without one, the error.
AllocateIP(vm) ==
    LET free == { ip \in DOMAIN ipPool : ipPool[ip] = "" }
    IN  /\ IF free = {}
           THEN /\ IpReturn("allocate", vm, <<>>, <<>>, TRUE)
                /\ UNCHANGED <<ipPool, ipOwner>>
           ELSE \E ip \in free :
                   /\ ipPool' = MapSet(ipPool, ip, vm)
                   /\ ipOwner' = MapSet(ipOwner, ip, <<vm>>)
                   /\ IpReturn("allocate", vm, <<>>, ip, FALSE)
        /\ UNCHANGED outsideIp

\* ReleaseIP(ip, vmID), under p.mu
ReleaseIP(ip, vm) ==
    /\ IF ip \notin DOMAIN ipPool
       THEN /\ IpReturn("release", vm, ip, <<>>, TRUE)
            /\ UNCHANGED <<ipPool, ipOwner>>
       ELSE IF ipPool[ip] # vm
       THEN /\ IpReturn("release", vm, ip, <<>>, TRUE)
            /\ UNCHANGED <<ipPool, ipOwner>>
       ELSE /\ ipPool' = MapSet(ipPool, ip, "")
            /\ ipOwner' = MapSet(ipOwner, ip, <<>>)
            /\ IpReturn("release", vm, ip, <<>>, FALSE)
    /\ UNCHANGED outsideIp

NextIP ==
    \E vm \in VMIDs : AllocateIP(vm) \/ \E ip \in CallIPs : ReleaseIP(ip, vm)

SpecIP == InitIP /\ [][NextIP]_vars

(* --------------------------- HostPortPool ----------------------------- *)
MaxPorts == 3

\* HostPortPoolStart, and the end of the pool
PortStart == 40000
PortEnd == PortStart + MaxPorts - 1

\* The port lists ReleasePorts is called with: one or two ports, of the pool
\* or the one below it.
CallPorts == (PortStart - 1)..PortEnd
CallPortLists == { <<a>> : a \in CallPorts } \cup { <<a, b>> : a, b \in CallPorts }

\* NewHostPortPool(startPort, endPort)
NewHostPortPool == [port \in PortStart..PortEnd |-> ""]

InitPort ==
    /\ OutsidePortIdle
    /\ portPool = NewHostPortPool
    /\ portOwner = [port \in DOMAIN NewHostPortPool |-> <<>>]
    /\ portRet = NoPortCall

PortReturn(op, vm, arg, out, err) ==
    portRet' = [seq |-> 1 - portRet.seq, op |-> op, vm |-> vm, arg |-> arg,
                out |-> out, err |-> err]

\* p.pool[port] = vmID for every port of a set
RECURSIVE MapSetAll(_, _, _)
MapSetAll(m, ks, v) ==
    IF ks = {} THEN m
    ELSE LET k == CHOOSE x \in ks : TRUE IN MapSetAll(MapSet(m, k, v), ks \ {k}, v)

\* AllocatePorts(vmID, count), under p.mu: count ports of the map's iteration
\* (any order) that map to ""; with fewer free ports, the error and no change.
AllocatePorts(vm, count) ==
    LET free == { port \in DOMAIN portPool : Len(portPool[port]) = 0 }
    IN  /\ IF count <= 0
           THEN /\ PortReturn("allocate", vm, <<count>>, {}, FALSE)
                /\ UNCHANGED <<portPool, portOwner>>
           ELSE IF Cardinality(free) < count
           THEN /\ PortReturn("allocate", vm, <<count>>, {}, TRUE)
                /\ UNCHANGED <<portPool, portOwner>>
           ELSE \E ports \in SUBSET free :
                   /\ Cardinality(ports) = count
                   /\ portPool' = MapSetAll(portPool, ports, vm)
                   /\ portOwner' = MapSetAll(portOwner, ports, <<vm>>)
                   /\ PortReturn("allocate", vm, <<count>>, ports, FALSE)
        /\ UNCHANGED outsidePort

\* ReleasePorts, the loop over ports: the pool and the observation after it,
\* and whether it returned an error (on which it stops, the ports before the
\* failing one released already).
RECURSIVE ReleaseLoop(_, _, _, _)
ReleaseLoop(pool, owner, ports, vm) ==
    IF ports = <<>> THEN [pool |-> pool, owner |-> owner, err |-> FALSE]
    ELSE LET port == Head(ports)
         IN  IF port \notin DOMAIN pool
             THEN [pool |-> pool, owner |-> owner, err |-> TRUE]
             ELSE IF Len(pool[port]) > 0 /\ pool[port] # vm
             THEN [pool |-> pool, owner |-> owner, err |-> TRUE]
             ELSE ReleaseLoop(MapSet(pool, port, ""), MapSet(owner, port, <<>>),
                              Tail(ports), vm)

\* ReleasePorts(ports, vmID), under p.mu
ReleasePorts(ports, vm) ==
    LET r == ReleaseLoop(portPool, portOwner, ports, vm)
    IN  /\ portPool' = r.pool
        /\ portOwner' = r.owner
        /\ PortReturn("release", vm, ports, {}, r.err)
        /\ UNCHANGED outsidePort

NextPort ==
    \E vm \in VMIDs :
        \/ \E count \in 0..(MaxPorts + 1) : AllocatePorts(vm, count)
        \/ \E ports \in CallPortLists : ReleasePorts(ports, vm)

SpecPort == InitPort /\ [][NextPort]_vars

(* ------------------------ NewRegistryProvider ------------------------- *)
MaxRef == 3

\* The references NewRegistryProvider is called with: up to MaxRef
\* characters, a letter or one of the three the rules look at.
RefChars == {"n", "/", ".", ":"}
Refs == UNION { [1..n -> RefChars] : n \in 0..MaxRef }

DockerIo == <<"d", "o", "c", "k", "e", "r", ".", "i", "o", "/">>
DockerIoLibrary == DockerIo \o <<"l", "i", "b", "r", "a", "r", "y", "/">>

\* strings.Contains(s, c) for a substring of one character
StrContains(s, c) == \E i \in 1..Len(s) : s[i] = c

\* strings.Split(s, "/")[0]
SplitFirst(s) ==
    IF StrContains(s, "/")
    THEN LET i == CHOOSE j \in 1..Len(s) :
                    s[j] = "/" /\ \A k \in 1..(j - 1) : s[k] # "/"
         IN  SubSeq(s, 1, i - 1)
    ELSE s

\* A normalization that puts docker.io/ in front of every reference that has
\* a "/".
Normalized_Always(ref) ==
    IF ~StrContains(ref, "/") THEN DockerIoLibrary \o ref ELSE DockerIo \o ref

\* The value of normalizedRef before name.ParseReference is called.
Normalized(ref) ==
    IF ~StrContains(ref, "/")
    THEN DockerIoLibrary \o ref
    ELSE IF ~StrContains(SplitFirst(ref), ".") /\ ~StrContains(SplitFirst(ref), ":")
    THEN DockerIo \o ref
    ELSE ref

InitRef ==
    /\ OutsideRefIdle
    /\ imageRef \in Refs
    /\ normalizedRef = <<>>
    /\ refPc = "call"

\* NewRegistryProvider(imageRef), up to the call of name.ParseReference
NewRegistryProvider ==
    /\ refPc = "call"
    /\ normalizedRef' = Normalized(imageRef)
    /\ refPc' = "done"
    /\ UNCHANGED <<imageRef, outsideRef>>

\* The caller passes the reference it got to NewRegistryProvider again.
RefAgain ==
    /\ refPc = "done"
    /\ normalizedRef # imageRef
    /\ imageRef' = normalizedRef
    /\ normalizedRef' = <<>>
    /\ refPc' = "call"
    /\ UNCHANGED outsideRef

NextRef == NewRegistryProvider \/ RefAgain

SpecRef == InitRef /\ [][NextRef]_vars

(* ------------- the publication guard on a marker it cannot use -------- *)
\* What <digest_hex>.wanted can hold when something other than a build wrote
\* or removed it: nothing, the empty string, "x", "9\n", and a timestamp
\* later than every build's.
Markers == {NoFile, File(<<>>), File(<<120>>), File(<<57, 10>>), File(FormatInt(MaxClock + 1))}

\* The marker is removed or overwritten from outside while a build is about
\* to read it.
MarkerTamper ==
    /\ \E b \in Builds : pc[b] = "adGuard"
    /\ \E f \in Markers : f # wanted /\ wanted' = f
    /\ UNCHANGED <<flatVars, moreVars, cancelAt, clock, pc, startTs, result, errAt, defers, wfaTmp, wfaErr,
                   inode, outDir, rootfs, mnt, mntBy, publishLog, markerLog>>

\* One BuildAppDevice call and the outside writer of the marker.
NextGuard == Tick \/ AppStep("A") \/ MarkerTamper

SpecGuard == Init /\ [][NextGuard]_vars

(* -------------------------- FirecrackerMachine ------------------------ *)
\* The most firecracker processes Start is asked to launch.
MaxProcs == 3

\* A process of the machine is alive.
Alive(procs) == \E i \in 1..Len(procs) : procs[i] # "exited"

\* The machine NewFirecrackerMachine returns: Cmd nil, the machine directory
\* made, no process.
InitFc ==
    /\ OutsideFcIdle
    /\ fcCmd = 0
    /\ fcProcs = <<>>
    /\ fcDir = TRUE
    /\ fcRet = NoFcCall

FcReturn(op, out, err) ==
    fcRet' = [seq |-> 1 - fcRet.seq, op |-> op, out |-> out, err |-> err]

\* The body of Clean: the error when m.Cmd is set; else os.RemoveAll of the
\* machine directory, which can fail. Whether it returns an error.
CleanBody(err) ==
    \/ /\ fcCmd # 0
       /\ err
       /\ UNCHANGED fcDir
    \/ /\ fcCmd = 0
       /\ \/ ~err /\ fcDir' = FALSE
          \/ err /\ UNCHANGED fcDir

\* Start: cmd := exec.Command(...); cmd.Start(). The new process is kept in
\* the local cmd only: m.Cmd is not assigned. When cmd.Start fails, Clean runs
\* and its error is joined to the one returned.
FcStart ==
    /\ Len(fcProcs) < MaxProcs
    /\ \/ /\ fcProcs' = Append(fcProcs, "running")
          /\ FcReturn("start", "", FALSE)
          /\ UNCHANGED <<fcCmd, fcDir>>
       \/ /\ \E err \in BOOLEAN : CleanBody(err)
          /\ FcReturn("start", "", TRUE)
          /\ UNCHANGED <<fcCmd, fcProcs>>
    /\ UNCHANGED outsideFc

\* Status: stopped when m.Cmd is nil or signal 0 to m.Cmd.Process fails,
\* running otherwise.
FcStatus ==
    /\ FcReturn("status",
                IF fcCmd = 0 THEN "stopped"
                ELSE IF fcProcs[fcCmd] = "exited" THEN "stopped"
                ELSE "running",
                FALSE)
    /\ UNCHANGED <<fcCmd, fcProcs, fcDir, outsideFc>>

\* Stop: nil when m.Cmd is nil; else Kill and Wait, the removal of the socket,
\* and m.Cmd = nil when neither failed.
FcStop ==
    /\ IF fcCmd = 0
       THEN /\ fcProcs' = [i \in 1..Len(fcProcs) |->
                              IF fcProcs[i] = "running" THEN "orphan" ELSE fcProcs[i]]
            /\ FcReturn("stop", "", FALSE)
            /\ UNCHANGED fcCmd
       ELSE /\ fcProcs' = [fcProcs EXCEPT ![fcCmd] = "exited"]
            /\ \/ FcReturn("stop", "", TRUE) /\ UNCHANGED fcCmd
               \/ FcReturn("stop", "", FALSE) /\ fcCmd' = 0
    /\ UNCHANGED <<fcDir, outsideFc>>

\* Clean
FcClean ==
    /\ \E err \in BOOLEAN : CleanBody(err) /\ FcReturn("clean", "", err)
    /\ UNCHANGED <<fcCmd, fcProcs, outsideFc>>

\* A firecracker process ends by itself.
FcExit ==
    /\ \E i \in 1..Len(fcProcs) :
          /\ fcProcs[i] # "exited"
          /\ fcProcs' = [fcProcs EXCEPT ![i] = "exited"]
    /\ UNCHANGED <<fcCmd, fcDir, fcRet, outsideFc>>

NextFc == FcStart \/ FcStatus \/ FcStop \/ FcClean \/ FcExit

SpecFc == InitFc /\ [][NextFc]_vars

(* ============================== claims ================================ *)
Last(sq) == sq[Len(sq)]
Elems(sq) == {sq[i] : i \in 1..Len(sq)}
Returns(b) == pc[b] # "done" /\ pc'[b] = "done"

\* C1 (supersession, P5): when build a evaluates its publication guard and a
\* build b with a greater start_ts has already written the wanted marker, a is
\* refused (it returns the "newer build" error and does not go on to rename).
C1_Supersession ==
    [][\A a \in Builds : \A b \in Builds :
          (pc[a] \in {"guard", "adGuard"} /\ pc'[a] \notin {pc[a], "crashed"}
             /\ b \in Elems(markerLog) /\ startTs[b] > startTs[a])
          => result'[a] = "superseded"]_vars

C3_NoPartialPublication ==
    final # NoInode => inode[final].stage = "populated"

\* C4 (monotonic marker): the integer stored in <digest_hex>.wanted never
\* decreases.
C4_MarkerMonotonic ==
    [][(wanted.exists /\ wanted'.exists)
          => ParseInt(wanted'.data).val >= ParseInt(wanted.data).val]_vars

\* C5 (atomic marker, P4): at every instant after the marker first exists, a
\* reader of the marker path gets the complete bytes of the WriteFileAtomic
\* call that last renamed onto it, which parse as an integer: never empty or
\* partial content, whatever the other calls are in the middle of.
C5_AtomicMarker ==
    wanted.exists =>
        /\ markerLog # <<>>
        /\ wanted.data = WantedData(Last(markerLog))
        /\ ParseInt(wanted.data).ok
        /\ ParseInt(wanted.data).val = startTs[Last(markerLog)]

\* C5 witness: the marker exists while another WriteFileAtomic call holds a
\* temp file with empty or partial content.
C5_Witness ==
    /\ wanted.exists
    /\ \E b \in Builds : /\ wfaTmp[b].exists
                         /\ wfaTmp[b].data # WantedData(b)
                         /\ Len(markerLog) >= 1

\* C6 (supersession cleans the temp device): when a build whose guard found
\* wanted_ts > start_ts returns, no file bears its temp device name.
C6_SupersededTempRemoved ==
    [][\A b \in Builds :
          (Returns(b) /\ result[b] = "superseded") => outDir'[AppTmp] = NoInode]_vars

\* C7 (per-attempt exclusivity): no attempt creates, truncates, formats or
\* otherwise writes the device file that another, still running attempt wrote
\* last.
C7_AttemptExclusive ==
    [][\A i \in Builds :
          (inode'[i] # inode[i] /\ inode[i].by # NoInode /\ inode'[i].by # inode[i].by)
          => ~Running(inode[i].by)]_vars

\* C8 (build directory removed on every exit path): when a build that created
\* its build directory returns, the directory does not exist.
C8_BuildDirRemoved ==
    [][\A b \in Builds :
          (Returns(b) /\ "rmBuildDir" \in defers[b])
          => rootfs'[BuildRun(b)] = "absent"]_vars

\* C9 (temp device cleaned on error paths): when a build returns the error of
\* a format, mount or copy failure in the block-device step, no file bears its
\* temp device name.
C9_TempRemovedOnDeviceError ==
    [][\A b \in Builds :
          (Returns(b) /\ errAt[b] \in {"ndMkfs", "ndMount", "ndCopy"})
          => outDir'[BuildRun(b)] = NoInode]_vars

\* C10 (the last-started build wins): once every build has returned, if the
\* build with the greatest start_ts got through all its steps and renamed, the
\* published artifact is the device it renamed.
C10_LastStartedWins ==
    \A m \in Builds :
        ( /\ \A b \in Builds : pc[b] = "done"
          /\ \A b \in Builds \ {m} : startTs[b] < startTs[m]
          /\ result[m] = "ok" )
        => Last(publishLog) = m

\* C11 (the marker is never rolled back): once build b has renamed its bytes
\* onto <digest_hex>.wanted, no later step of b itself (success, error,
\* supersession, cancellation, kill) deletes or rewrites the marker.
C11_MarkerNotRolledBack ==
    [][\A b \in Builds :
          (b \in Elems(markerLog) /\ pc'[b] # pc[b]) => wanted' = wanted]_vars

\* C11 witness: a build that wrote the marker has returned an error or was
\* superseded, and the marker file is there.
C11_Witness ==
    \E b \in Builds : /\ b \in Elems(markerLog)
                      /\ pc[b] = "done"
                      /\ result[b] \in {"error", "superseded"}
                      /\ wanted.exists

\* C12 (cancellation): a build whose ctx was cancelled before it reached its
\* publication guard never renames its device onto <digest_hex>.ext4 (and so
\* never returns success).
C12_CancelledNeverPublishes ==
    [][\A b \in Builds :
          (cancelAt[b] = "early" /\ pc'[b] # pc[b])
          => (publishLog' = publishLog /\ result'[b] # "ok")]_vars

\* C13 (inhibiting cache): a build that checks for <digest_hex>.ext4 while the
\* file exists returns at once with Cached = true, having run neither the
\* flattener, the config writer nor the block-device builder, and leaves the
\* output directory, the device files and the build directories as they were.
C13_CachedWithoutWork ==
    [][\A b \in Builds :
          (pc[b] \in {"inhCheck", "inhLocked"} /\ final # NoInode
             /\ pc'[b] \notin {pc[b], "crashed"})
          => /\ result'[b] = "cached"
             /\ pc'[b] = "done"
             /\ defers[b] = {}
             /\ outDir' = outDir /\ inode' = inode /\ rootfs' = rootfs /\ mnt' = mnt]_vars

\* C13 witness: a build has returned Cached = true.
C13_Witness ==
    \E b \in Builds : pc[b] = "done" /\ result[b] = "cached" /\ final # NoInode

\* C14 (meaning of Cached): a build leaves its cache check with Cached = true
\* if and only if a published artifact, that is a complete device under
\* <digest_hex>.ext4, existed when it checked.
C14_CachedIffArtifact ==
    [][\A b \in Builds :
          (pc[b] \in {"inhCheck", "inhLocked"} /\ pc'[b] \notin {pc[b], "crashed"})
          => (result'[b] = "cached"
                <=> (final # NoInode /\ inode[final].stage = "populated"))]_vars

(* ------------------------ claims on BuildFs --------------------------- *)
\* p is targetDir or lies below it, by its elements.
LexInside(p) == p = TargetDir \/ HasPrefix(p, TargetDir \o <<Slash>>)

\* What a reader finds at path p: nothing, a directory, or a file's bytes.
Node(k, b) == [kind |-> k, bytes |-> b]
View(p) ==
    IF tree[p].kind = "file" THEN Node("file", idata[tree[p].ino])
    ELSE Node(tree[p].kind, <<>>)

\* The overlay application of one entry, at position pos of the image, to the
\* tree t accumulated so far: a whiteout hides the path and all below it, an
\* opaque marker hides all below its directory, a directory or file entry
\* takes the path over (with the directories above it).
RefApply(t, h, pos) ==
    IF isWhiteout(h.name)
    THEN IF IsOpaque(h.name)
         THEN LET D == OpaqueDir(h.name)
              IN  [q \in AllPaths |->
                     IF q \in Above[D] THEN Node("dir", <<>>)
                     ELSE IF D \in Above[q] THEN Node("none", <<>>)
                     ELSE t[q]]
         ELSE [q \in AllPaths |->
                 IF DeletePath(h.name) \in Above[q] THEN Node("none", <<>>) ELSE t[q]]
    ELSE LET tp == TargetPath(h.name)
         IN  IF h.typeflag = "dir"
             THEN [q \in AllPaths |-> IF q \in Above[tp] THEN Node("dir", <<>>) ELSE t[q]]
             ELSE [q \in AllPaths |->
                     IF q = tp THEN Node("file", pos)
                     ELSE IF q \in Above[tp] THEN Node("dir", <<>>)
                     ELSE IF tp \in Above[q] THEN Node("none", <<>>)
                     ELSE t[q]]

\* The left fold of RefApply over the layers in manifest order, each in tar
\* order, from entry e of layer l on.
RECURSIVE RefFold(_, _, _, _)
RefFold(ls, l, e, t) ==
    IF l > Len(ls) THEN t
    ELSE IF e > Len(ls[l]) THEN RefFold(ls, l + 1, 1, t)
    ELSE RefFold(ls, l, e + 1, RefApply(t, ls[l][e], <<l, e>>))

RefStart ==
    [q \in AllPaths |->
        IF q \in Above[TargetDir] THEN Node("dir", <<>>)
        ELSE IF HostTree[q].kind = "file" THEN Node("file", HostBytes)
        ELSE Node(HostTree[q].kind, <<>>)]

\* A regular-file, directory or whiteout entry that names a path of the rootfs.
PlainHeader(h) ==
    /\ h.typeflag \in {"reg", "dir"}
    /\ LexInside(IF ~isWhiteout(h.name) THEN TargetPath(h.name)
                 ELSE IF IsOpaque(h.name) THEN OpaqueDir(h.name)
                 ELSE DeletePath(h.name))

AllPlain == \A l \in 1..Len(layers) : \A e \in 1..Len(layers[l]) : PlainHeader(layers[l][e])

\* C15 (layer semantics, P3): for every layer sequence of regular-file,
\* directory and whiteout entries, BuildFs returns with the tree that the left
\* fold of overlay application, in manifest and tar order, gives.
C15_LeftFold ==
    (flPc = "done" /\ AllPlain)
    => (flErr = "" /\ \A p \in AllPaths : View(p) = RefFold(layers, 1, 1, RefStart)[p])

\* The regular whiteouts of the inputs, by the directory D and the name n of
\* the marker D/.wh.n, and the path <target_dir>/D/n written out in full.
WhiteoutOf(D, n) == (IF D = <<>> THEN <<>> ELSE D \o <<Slash>>) \o WhPrefix \o n
Below(D, n) == TargetDir \o (IF D = <<>> THEN <<>> ELSE <<Slash>> \o D) \o <<Slash>> \o n
WhDirs == {<<>>, <<"d">>}
WhNames == {<<"a">>, <<"d">>}

\* C16 (regular whiteout): the entry D/.wh.<name> removes <target_dir>/D/<name>
\* and everything below it, changes nothing else (no file appears for the
\* marker), and succeeds, also when <name> does not exist.
C16_RegularWhiteout ==
    [][\A D \in WhDirs : \A n \in WhNames :
          (AtEntry /\ Cur.name = WhiteoutOf(D, n))
          => /\ flErr' = ""
             /\ ei' = ei + 1
             /\ idata' = idata
             /\ \A q \in AllPaths :
                   tree'[q] = IF Below(D, n) \in Above[q] THEN NoNode ELSE tree[q]]_vars

\* C16 witness: the whiteout .wh.d has just removed the directory d together
\* with the file d/a an earlier entry put into it.
C16_Witness ==
    /\ flPc = "run" /\ li = 1 /\ ei = 3
    /\ layers[1][1] = Hdr("reg", <<"d", "/", "a">>, <<>>)
    /\ layers[1][2] = Hdr("reg", WhiteoutOf(<<>>, <<"d">>), <<>>)
    /\ tree[Below(<<>>, <<"d">>)] = NoNode
    /\ tree[Below(<<"d">>, <<"a">>)] = NoNode

\* C17 (opaque whiteout): the entry d/.wh..wh..opaque removes everything
\* accumulated below <target_dir>/d, leaves d a directory and changes nothing
\* else; a file entry d/a that follows it in the same layer, as the last entry
\* of the image, is in the final tree with its own bytes.
OpaqueOfD == <<"d", "/">> \o WhPrefix \o OpaqueName
C17_OpaqueWhiteout ==
    /\ [][(AtEntry /\ Cur.name = OpaqueOfD)
            => /\ flErr' = ""
               /\ ei' = ei + 1
               /\ idata' = idata
               /\ \A q \in AllPaths :
                     tree'[q] = IF q = TargetDir \o <<Slash, "d">> THEN DirNode
                                ELSE IF HasPrefix(q, TargetDir \o <<Slash, "d", Slash>>) THEN NoNode
                                ELSE tree[q]]_vars
    /\ [](\A l \in 1..Len(layers) : \A i \in 1..Len(layers[l]) :
            ( /\ flPc = "done" /\ flErr = ""
              /\ l = Len(layers) /\ i < Len(layers[l])
              /\ layers[l][i].name = OpaqueOfD
              /\ layers[l][Len(layers[l])] = Hdr("reg", <<"d", "/", "a">>, <<>>) )
            => View(Below(<<"d">>, <<"a">>)) = Node("file", <<l, Len(layers[l])>>))

\* C17 witness: d/a of an earlier entry was removed by the opaque marker of d,
\* and the d/a that followed the marker in the same layer is in the final tree.
C17_Witness ==
    /\ flPc = "done" /\ flErr = ""
    /\ Len(layers) = 1 /\ Len(layers[1]) = 3
    /\ layers[1][1] = Hdr("reg", <<"d", "/", "a">>, <<>>)
    /\ layers[1][2].name = OpaqueOfD
    /\ layers[1][3] = Hdr("reg", <<"d", "/", "a">>, <<>>)
    /\ View(Below(<<"d">>, <<"a">>)) = Node("file", <<1, 3>>)

\* C18 (path containment, P2): a non-whiteout entry whose target path is not
\* lexically inside target_dir makes BuildFs fail, and nothing outside
\* target_dir is created or changed by it.
C18_PathContainment ==
    [][(AtEntry /\ ~isWhiteout(Cur.name) /\ ~LexInside(TargetPath(Cur.name)))
          => /\ flPc' = "done" /\ flErr' # ""
             /\ \A q \in AllPaths : ~LexInside(q) => tree'[q] = tree[q]]_vars

\* C19 (whiteout containment): processing a whiteout entry removes or creates
\* nothing outside target_dir.
C19_WhiteoutContainment ==
    [][(AtEntry /\ isWhiteout(Cur.name))
          => \A q \in AllPaths : ~LexInside(q) => tree'[q] = tree[q]]_vars

\* C20 (hard-link containment): no path inside target_dir is a hard link to
\* (shares its inode with) a file outside target_dir.
C20_HardLinkContainment ==
    \A p \in AllPaths : \A q \in AllPaths :
        ( /\ LexInside(p) /\ ~LexInside(q)
          /\ tree[p].kind = "file" /\ tree[q].kind = "file" )
        => tree[p].ino # tree[q].ino

\* C21 (flattener cancellation): a BuildFs whose ctx was cancelled before the
\* call, or between two tar entries while entries were still to come, returns
\* an error instead of completing the extraction.
C21_FlattenerCancellation ==
    (flPc = "done" /\ flCtx = "cancelled") => flErr # ""

\* The number of line breaks in a file.
RECURSIVE Newlines(_)
Newlines(f) ==
    IF f = <<>> THEN 0 ELSE (IF Head(f) = "\n" THEN 1 ELSE 0) + Newlines(Tail(f))

\* The bytes of f from position i on.
From(f, i) == SubSeq(f, i, Len(f))

\* f, from position i on, is the lines (each trimmed and followed by one line
\* break) and then rest.
RECURSIVE IsLinesThen(_, _, _, _)
IsLinesThen(f, i, lines, rest) ==
    IF lines = <<>> THEN From(f, i) = rest
    ELSE LET t == TrimSpace(Head(lines))
         IN  /\ i + Len(t) <= Len(f)
             /\ SubSeq(f, i, i + Len(t) - 1) = t
             /\ f[i + Len(t)] = "\n"
             /\ IsLinesThen(f, i + Len(t) + 1, Tail(lines), rest)

\* C22 (walkio/env format): the env file is every env entry, trimmed, in
\* order, each followed by one line break, then the single line
\* WORKDIR=<working_dir> (/ for an empty working_dir), and its last byte is no
\* line break.
C22_EnvFormat ==
    cwPc \in {"env", "done"}
    => LET wd == IF config.WorkingDir = <<>> THEN <<"/">> ELSE config.WorkingDir
       IN  /\ IsLinesThen(envFile, 1, config.Env, WorkdirKey \o wd)
           /\ Newlines(WorkdirKey \o wd) = 0
           /\ envFile[Len(envFile)] # "\n"

\* C23 (walkio/argv format): the argv file is every entrypoint element and
\* then every cmd element, in order, trimmed, each on its own line and followed
\* by one line break, nothing else; it has len(entrypoint) + len(cmd) lines.
C23_ArgvFormat ==
    cwPc = "done"
    => /\ IsLinesThen(argvFile, 1, config.Entrypoint \o config.Cmd, <<>>)
       /\ Newlines(argvFile) = Len(config.Entrypoint) + Len(config.Cmd)

\* C24 (device size rule): the file NewDevice creates has at least 7 MiB; with
\* size_bytes given it has max(size_bytes, 7 MiB), without it the content size
\* times 1.15 (rounded down or up to a byte), raised to 7 MiB when smaller.
C24_DeviceSizeRule ==
    (szPc \in {"created", "done"} /\ szErr = "")
    => /\ fileSize >= MinSize
       /\ opts.given => fileSize = Max(opts.SizeBytes, MinSize)
       /\ ~opts.given =>
            \/ fileSize = MinSize /\ opts.content * 115 <= MinSize * 100
            \/ /\ fileSize >= MinSize
               /\ (fileSize - 1) * 100 < opts.content * 115
               /\ opts.content * 115 < (fileSize + 1) * 100

\* C25 (reported size): the SizeBytes of the BlockDevice NewDevice returns is
\* the size of the file it made, for sizes asked for below 7 MiB too.
C25_ReportedSize ==
    (szPc = "done" /\ szErr = "") => devSize = fileSize

\* C26 (unmount on all paths): when a build returns (with success, with an
\* error of any step, superseded or cancelled), no loop mount that it made is
\* still attached.
C26_UnmountedOnReturn ==
    [][\A b \in Builds :
          Returns(b) => \A k \in Keys : b \notin Elems(mntBy'[k])]_vars

\* The suffix every device file has.
Ext4Suffix == <<".", "e", "x", "t", "4">>

\* C27 (state-disk path): every successful state-disk build has made its
\* device at <output_dir>/<app_id>_<uuid>.ext4 and returned exactly that path,
\* and two successful builds return different paths.
C27_StateDiskPath ==
    \A i \in 1..Len(stRet) :
        ~stRet[i].err
        => /\ stRet[i].path
                = StateDir \o <<"/">> \o stRet[i].app \o <<"_">> \o stRet[i].uuid \o Ext4Suffix
           /\ stRet[i].path \in stFiles
           /\ \A j \in 1..Len(stRet) :
                (j # i /\ ~stRet[j].err) => stRet[j].path # stRet[i].path

\* A call on the IP pool has just returned.
IpCall(op) == ipRet'.seq # ipRet.seq /\ ipRet'.op = op

\* C28 (IP pool exclusivity): an AllocateIP that returns an address returns
\* one of [start..end] that no earlier AllocateIP holds (none returned it
\* without a successful ReleaseIP of it since), and no call changes the set
\* of addresses of the pool.
C28_IPExclusivity ==
    [][ /\ (IpCall("allocate") /\ ~ipRet'.err)
           => /\ ipToUint32(IpStart) <= ipToUint32(ipRet'.out)
              /\ ipToUint32(ipRet'.out) <= ipToUint32(IpEnd)
              /\ ipOwner[ipRet'.out] = <<>>
        /\ DOMAIN ipPool' = DOMAIN ipPool ]_vars

\* C29 (ReleaseIP validates the owner): ReleaseIP(ip, vmID) frees ip and
\* returns nil when ip is allocated to vmID; when ip is not in the pool, is
\* unallocated or is allocated to another VM it returns an error and leaves
\* the pool unchanged.
C29_ReleaseValidatesOwner ==
    [][IpCall("release")
       => LET ip == ipRet'.arg
              vm == ipRet'.vm
          IN  IF ip \in DOMAIN ipPool /\ ipOwner[ip] = <<vm>>
              THEN ~ipRet'.err /\ ipPool'[ip] = ""
                   /\ \A q \in DOMAIN ipPool \ {ip} : ipPool'[q] = ipPool[q]
              ELSE ipRet'.err /\ ipPool' = ipPool ]_vars

\* C30 (ReleasePorts): a ReleasePorts call with a port that is not allocated
\* to the given VM at the time of the call (one that is not in the pool, one
\* that is free, one that another VM holds) returns an error.
C30_ReleasePortsError ==
    [][ ( /\ portRet'.seq # portRet.seq /\ portRet'.op = "release"
          /\ \E i \in 1..Len(portRet'.arg) :
                \/ portRet'.arg[i] \notin DOMAIN portPool
                \/ portOwner[portRet'.arg[i]] # <<portRet'.vm>> )
        => portRet'.err ]_vars

\* A call on the port pool has just returned.
PortCall(op) == portRet'.seq # portRet.seq /\ portRet'.op = op

\* C31 (AllocatePorts is all-or-nothing): AllocatePorts(vmID, count) with
\* count > 0 either returns exactly count distinct ports of the pool that no
\* VM held before the call (no AllocatePorts returned them without a release
\* since) and that belong to vmID afterwards, every other port as before, or
\* returns ErrPortPoolExhausted and leaves the pool unchanged.
C31_AllocateAllOrNothing ==
    [][ (PortCall("allocate") /\ portRet'.arg[1] > 0)
        => IF portRet'.err
           THEN portRet'.out = {} /\ portPool' = portPool
           ELSE /\ Cardinality(portRet'.out) = portRet'.arg[1]
                /\ \A port \in portRet'.out :
                      /\ port \in DOMAIN portPool
                      /\ portOwner[port] = <<>>
                      /\ portPool'[port] = portRet'.vm
                /\ \A port \in DOMAIN portPool \ portRet'.out :
                      portPool'[port] = portPool[port] ]_vars

\* C38 (ReleasePorts is all-or-nothing): when ReleasePorts returns an error
\* for a list of ports, the pool is what it was before the call.
C38_ReleaseAllOrNothing ==
    [][ (PortCall("release") /\ portRet'.err) => portPool' = portPool ]_vars

\* The characters of ref before its first "/" (all of ref without one)
\* include neither "." nor ":".
PlainFirstComponent(ref) ==
    \A i \in 1..Len(ref) :
        ref[i] \in {".", ":"} => \E k \in 1..(i - 1) : ref[k] = "/"

\* C32 (reference normalization): a reference without "/" gets the prefix
\* docker.io/library/; otherwise one whose first path component has neither
\* "." nor ":" gets the prefix docker.io/; every other reference is used as
\* it is; and normalizing the normalized reference again changes nothing.
C32_ReferenceNormalization ==
    refPc = "done"
    => /\ normalizedRef =
            IF \A i \in 1..Len(imageRef) : imageRef[i] # "/"
            THEN DockerIoLibrary \o imageRef
            ELSE IF PlainFirstComponent(imageRef)
            THEN DockerIo \o imageRef
            ELSE imageRef
       /\ Normalized(normalizedRef) = normalizedRef

\* C32, reached: a second call, with a reference the first call qualified,
\* has returned it as it was.
C32_Witness ==
    /\ refPc = "done"
    /\ Len(imageRef) > MaxRef
    /\ HasPrefix(imageRef, DockerIo)
    /\ normalizedRef = imageRef

\* C33 (WriteFileAtomic leaves no temp file behind): when WriteFileAtomic
\* returns, with an error of any of its steps or with nil, the temp file it
\* created does not exist; and no temp file of a build exists outside its
\* WriteFileAtomic call, unless the process was killed inside the call.
C33_NoTempLeftBehind ==
    [][\A b \in Builds :
          /\ (pc[b] = "wfaRemove" /\ pc'[b] \notin {"wfaRemove", "crashed"})
             => wfaTmp'[b] = NoFile
          /\ pc'[b] \notin {"wfaWrite", "wfaRename", "wfaSync", "wfaRemove", "crashed"}
             => wfaTmp'[b] = NoFile]_vars

\* C33, reached: a WriteFileAtomic that renamed its temp file and then failed
\* on the directory has returned its error, and its temp file is gone.
C33_Witness ==
    \E b \in Builds :
        /\ pc[b] = "done"
        /\ errAt[b] = "wanted"
        /\ b \in Elems(markerLog)
        /\ wfaTmp[b] = NoFile

\* C34 (publish ordering): a build that renames the device to
\* <digest_hex>.ext4 renames a device that holds its complete image and is
\* mounted nowhere, it does so after its guard read the marker, and the file
\* <digest_hex>.ext4 names is not written afterwards.
C34_PublishOrdering ==
    [][ /\ \A b \in Builds :
             publishLog' = Append(publishLog, b)
             => /\ pc[b] = "adRename"
                /\ inode[outDir[AppTmp]] = [stage |-> "populated", by |-> b]
                /\ \A k \in Keys : outDir[AppTmp] \notin Elems(mnt[k])
        /\ (final # NoInode /\ outDir'[FinalName] = final)
             => inode'[final] = inode[final] ]_vars

\* d is a decimal integer as strconv.ParseInt(d, 10, 64) takes it: an
\* optional sign and then one or more digits.
DecimalInteger(d) ==
    \E s \in {0, 1} :
        /\ Len(d) > s
        /\ s = 1 => d[1] \in {43, 45}
        /\ \A i \in (s + 1)..Len(d) : d[i] >= 48 /\ d[i] <= 57

\* C37 (the guard on a missing or malformed marker): when the guard of a
\* build finds no marker, or one that is no decimal integer, or one that
\* holds the build's own timestamp, the build is not superseded: it goes on
\* to unmount and to rename its device to the final name.
C37_GuardOnBadMarker ==
    [][\A b \in Builds :
          /\ ( /\ pc[b] = "adGuard"
               /\ pc'[b] \notin {"adGuard", "crashed"}
               /\ \/ ~wanted.exists
                  \/ ~DecimalInteger(wanted.data)
                  \/ wanted.data = FormatInt(startTs[b]) )
             => pc'[b] = "adUnmount" /\ result'[b] = result[b]
          /\ (pc[b] = "adUnmount" /\ pc'[b] \notin {"adUnmount", "crashed"})
             => pc'[b] = "adRename"
          /\ (pc[b] = "adRename" /\ pc'[b] \notin {"adRename", "crashed"})
             => \/ publishLog' = Append(publishLog, b) /\ result'[b] = "ok"
                \/ result'[b] = "error" /\ errAt'[b] = "adRename" ]_vars

\* C37, reached: a build has published although the marker does not exist.
C37_Witness ==
    /\ publishLog = <<"A">>
    /\ result["A"] = "ok"
    /\ ~wanted.exists

\* The next step applies a symlink entry.
SymlinkEntry == AtEntry /\ Cur.typeflag = "symlink" /\ <<ei, flPc>> # <<ei', flPc'>>

\* C35 (symlink entries replace what is there): once a symlink entry is
\* applied, its target path is a symbolic link whose text is the header's
\* linkname, whatever the path named before; no error is returned, and
\* nothing outside the target path has changed (the linkname was not
\* resolved).
C35_SymlinkReplaces ==
    [][SymlinkEntry
       => /\ flErr' = ""
          /\ tree'[TargetPath(Cur.name)] = SymNode(Cur.linkname)
          /\ \A q \in AllPaths :
                TargetPath(Cur.name) \notin Above[q] => tree'[q] = tree[q]
          /\ idata' = idata ]_vars

\* C36 (no write through a symlink): whatever symbolic links the earlier
\* entries made inside the rootfs and whatever paths the later entries name
\* below them, no path outside target_dir names anything else than before
\* BuildFs, and the files of the host hold the bytes they held.
C36_NoWriteThroughSymlink ==
    /\ \A q \in AllPaths : ~LexInside(q) => tree[q] = HostTree[q]
    /\ idata[HostInoX] = HostBytes
    /\ idata[HostInoS] = HostBytes

\* Build b holds the lock of the digest: it is past AcquireLock and has not
\* returned (its deferred Release has not run).
HoldsLock(b) == pc[b] \notin {"idle", "getImage", "inhCheck", "done", "crashed"}

\* Build b is in the steps that write the shared build directory and
\* <digest_hex>.ext4: past the second check for the artifact, before its
\* return.
InBuildSteps(b) == HoldsLock(b) /\ pc[b] # "inhLocked"

\* C39 (mutual exclusion of the inhibiting build): of two concurrent Build
\* calls on the digest at most one is in the flatten, config and device
\* steps at any time, and a call that got the lock while the artifact was
\* missing and another call was at work does not build itself.
C39_InhibitMutualExclusion ==
    \A a, b \in Builds : a # b => ~(InBuildSteps(a) /\ InBuildSteps(b))

\* A call on the machine has just returned.
FcCall(op) == fcRet'.seq # fcRet.seq /\ fcRet'.op = op

\* A process a successful Start launched is running and no Stop call has
\* returned since.
Launched == \E i \in 1..Len(fcProcs) : fcProcs[i] = "running"

\* C40 (FirecrackerMachine lifecycle): after Start launched the process and
\* before Stop, Status reports running and Clean returns its error and leaves
\* the machine directory; and the machine directory is removed only when no
\* process of the machine is alive.
C40_MachineLifecycle ==
    [][ /\ (FcCall("status") /\ Launched) => fcRet'.out = "running"
        /\ (FcCall("clean") /\ Launched) => (fcRet'.err /\ fcDir' = fcDir)
        /\ (fcDir /\ ~fcDir') => ~Alive(fcProcs) ]_vars

====
